---- MODULE Spec2Model ----
(***************************************************************************)
(* Model of proxer (pxc): the template build pipeline (package builder),   *)
(* the stack dependency resolver (models.LXCStack) and the deployment      *)
(* orchestrator (package runner).  External `pct` invocations are recorded *)
(* in the history variable cmds; their exit status is an input.            *)
(***************************************************************************)
EXTENDS Integers, Sequences, FiniteSets, TLC

\* ------------------------------------------------------------------------
\* Bounds of the model
\* ------------------------------------------------------------------------
MaxSetup == 2
MaxCleanup == 1

\* ------------------------------------------------------------------------
\* Program constants
\* ------------------------------------------------------------------------
MaxProbes == 60
BuildIDBase == 10000
BuildIDRange == 100000

\* The CLI returns before constructing a Builder or Orchestrator when
\* --dry-run is set, so both always run with DryRun = false.
DryRun == FALSE

NoErr == ""
Nil == [nil |-> TRUE]

Min(a, b) == IF a < b THEN a ELSE b

SeqsUpTo(S, n) == UNION {[1..k -> S] : k \in 0..n}

Perms(S) == {p \in [1..Cardinality(S) -> S] : \A x \in S : \E k \in DOMAIN p : p[k] = x}

\* ------------------------------------------------------------------------
\* Build manifests (models.LXCfile)
\* ------------------------------------------------------------------------
Path(abs, parts) == [abs |-> abs, parts |-> parts]

\* filepath.Dir: "/" for a top-level absolute path, "." for a bare name
PathDir(p) ==
    IF Len(p.parts) <= 1 THEN Path(p.abs, <<>>)
    ELSE Path(p.abs, SubSeq(p.parts, 1, Len(p.parts) - 1))

RootDir == Path(TRUE, <<>>)
DotDir == Path(FALSE, <<>>)

\* a shell command, a sequence of pieces of text; the empty string
NoCommand == <<>>

\* build arguments map a key to its value, both pieces of text; a build
\* without build arguments has the empty map
NoArgs == [key \in {} |-> <<>>]

SetupStep(run, copy, env, workdir) ==
    [Run |-> run, Copy |-> copy, Env |-> env, WorkDir |-> workdir]

RunOnly == SetupStep(<<"apt-get", " ", "update">>, Nil, Nil, "")
CopyFull ==
    SetupStep(NoCommand, [Source |-> "./app", Dest |-> Path(TRUE, <<"opt", "app">>),
                   Owner |-> "root:root", Mode |-> "755"], Nil, "")
CopyBare ==
    SetupStep(NoCommand, [Source |-> "./app", Dest |-> Path(TRUE, <<"app">>),
                   Owner |-> "", Mode |-> ""], Nil, "")
EnvOnly == SetupStep(NoCommand, Nil, [k \in {"A", "B"} |-> "v"], "")
WorkDirOnly == SetupStep(NoCommand, Nil, Nil, "/opt")
NoAction == SetupStep(NoCommand, Nil, Nil, "")
RunAndCopy ==
    SetupStep(<<"make">>, [Source |-> "./app", Dest |-> Path(TRUE, <<"app">>),
                       Owner |-> "", Mode |-> "755"], Nil, "")

StepCatalog == {RunOnly, CopyFull, EnvOnly, WorkDirOnly, NoAction, RunAndCopy}
CleanupCatalog == {RunOnly, CopyBare}

ResourcesCatalog == {Nil, [Cores |-> 2, Memory |-> 1024, Swap |-> 0]}
FeaturesCatalog == {Nil, [Unprivileged |-> TRUE, Nesting |-> TRUE, Keyctl |-> FALSE, Fuse |-> FALSE]}

LXCfile(from, setup, cleanup, resources, features) ==
    [From |-> from, Setup |-> setup, Cleanup |-> cleanup,
     Resources |-> resources, Features |-> features]

Manifests ==
    {LXCfile(from, setup, cleanup, res, Nil) :
        from \in {"", "ubuntu:22.04"},
        setup \in SeqsUpTo(StepCatalog, MaxSetup),
        cleanup \in SeqsUpTo(CleanupCatalog, MaxCleanup),
        res \in ResourcesCatalog}

\* LXCfile.Validate, the rules on from and setup (mounts, ports and health
\* are absent from the manifests of the model)
RECURSIVE ValidateSteps(_, _)
ValidateSteps(setup, k) ==
    IF k > Len(setup) THEN NoErr
    ELSE LET step == setup[k] IN
         IF step.Run = NoCommand /\ step.Copy = Nil /\ step.Env = Nil /\ step.WorkDir = ""
         THEN "setup step must have at least one action"
         ELSE IF step.Copy # Nil /\ step.Copy.Source = ""
         THEN "copy source is required"
         ELSE IF step.Copy # Nil /\ step.Copy.Dest = DotDir
         THEN "copy dest is required"
         ELSE ValidateSteps(setup, k + 1)

LXCfileValidate(l) ==
    IF l.From = "" THEN "'from' field is required"
    ELSE IF Len(l.Setup) = 0 THEN "'setup' field is required"
    ELSE ValidateSteps(l.Setup, 1)

\* ------------------------------------------------------------------------
\* Stack manifests (models.LXCStack)
\* ------------------------------------------------------------------------
MaxDeps == 2

ServiceNames == {"db", "api", "web"}
Ghost == "ghost"

NoBuild == Nil
BuildDir(context) == [kind |-> "string", Context |-> context]

\* a template reference: a numeric string (strconv.Itoa of a container id)
\* or any other string
TemplateName(text) == [numeric |-> FALSE, text |-> text, id |-> 0]
Itoa(id) == [numeric |-> TRUE, text |-> "", id |-> id]
NoTemplate == TemplateName("")

Service(build, template, dependsOn) ==
    [Build |-> build, Template |-> template, DependsOn |-> dependsOn,
     Restart |-> "", Scale |-> 0, Networks |-> <<>>, Resources |-> Nil]

\* the fields of Resources that buildContainerConfig reads
Resources(cores, memory, swap) == [Cores |-> cores, Memory |-> memory, Swap |-> swap]

Settings(defaultResources) == [DefaultResources |-> defaultResources]

Hooks(preStart, postStart, preStop, postStop) ==
    [PreStart |-> preStart, PostStart |-> postStart, PreStop |-> preStop,
     PostStop |-> postStop]

LXCStack(version, services) ==
    [Version |-> version, Services |-> services, Networks |-> {}, Settings |-> Nil,
     Hooks |-> Nil]

HasBuild(service) == service.Build # Nil

\* GetBuildConfig: a string is the context directory; a value of any other
\* type than string or mapping yields no configuration
GetBuildConfig(service) ==
    IF service.Build = Nil THEN Nil
    ELSE IF service.Build.kind \in {"string", "map"}
    THEN [Context |-> service.Build.Context]
    ELSE Nil

NoRepeat(q) == \A a, b \in DOMAIN q : a # b => q[a] # q[b]

DepLists(targets) == {q \in SeqsUpTo(targets, MaxDeps) : NoRepeat(q)}

TemplateKind == {<<NoBuild, TemplateName("ubuntu:22.04")>>}
BuildKind == {<<BuildDir("./app"), NoTemplate>>}

\* the service shapes that only validation sees: build and template both
\* set, neither set, a build without context
BothKind == {<<BuildDir("./app"), TemplateName("ubuntu:22.04")>>}
NeitherKind == {<<NoBuild, NoTemplate>>}
NoContextKind == {<<BuildDir(""), NoTemplate>>}
AllKinds == TemplateKind \cup BuildKind \cup BothKind \cup NeitherKind \cup NoContextKind

StacksOf(kinds, targets) ==
    {LXCStack("1.0", sv) :
        sv \in UNION {[names -> {Service(k[1], k[2], deps) : k \in kinds,
                                                                     deps \in DepLists(targets)}] :
                        names \in SUBSET ServiceNames}}

RestartPolicies == {"no", "always", "on-failure", "unless-stopped"}

\* mutant: validateService without the check of build together with template
validateServiceAllowsBoth(s, name, service) ==
    IF ~HasBuild(service) /\ service.Template = NoTemplate
    THEN "must specify either 'build' or 'template'"
    ELSE IF HasBuild(service)
            /\ (GetBuildConfig(service) = Nil \/ GetBuildConfig(service).Context = "")
    THEN "build context is required"
    ELSE IF \E k \in DOMAIN service.DependsOn : service.DependsOn[k] \notin DOMAIN s.Services
    THEN "depends_on references undefined service"
    ELSE NoErr

\* mutant: validateService without the depends_on check
validateServiceSkipsDependsOn(s, name, service) ==
    IF ~HasBuild(service) /\ service.Template = NoTemplate
    THEN "must specify either 'build' or 'template'"
    ELSE IF HasBuild(service) /\ service.Template # NoTemplate
    THEN "cannot specify both 'build' and 'template'"
    ELSE NoErr

validateService(s, name, service) ==
    IF ~HasBuild(service) /\ service.Template = NoTemplate
    THEN "must specify either 'build' or 'template'"
    ELSE IF HasBuild(service) /\ service.Template # NoTemplate
    THEN "cannot specify both 'build' and 'template'"
    ELSE IF HasBuild(service)
            /\ (GetBuildConfig(service) = Nil \/ GetBuildConfig(service).Context = "")
    THEN "build context is required"
    ELSE IF \E k \in DOMAIN service.DependsOn : service.DependsOn[k] \notin DOMAIN s.Services
    THEN "depends_on references undefined service"
    ELSE IF service.Restart # "" /\ service.Restart \notin RestartPolicies
    THEN "invalid restart policy"
    ELSE IF service.Scale < 0
    THEN "scale cannot be negative"
    ELSE NoErr

\* mutant: the loop returns after the first service, valid or not
validateServicesFirstOnly(s, iter, k) ==
    IF k > Len(iter) THEN NoErr
    ELSE validateService(s, iter[k], s.Services[iter[k]])

\* the loops of Validate over the services map, in the iteration order iter
RECURSIVE validateServices(_, _, _)
validateServices(s, iter, k) ==
    IF k > Len(iter) THEN NoErr
    ELSE IF validateService(s, iter[k], s.Services[iter[k]]) # NoErr
    THEN validateService(s, iter[k], s.Services[iter[k]])
    ELSE validateServices(s, iter, k + 1)

RECURSIVE validateNetworks(_, _, _)
validateNetworks(s, iter, k) ==
    IF k > Len(iter) THEN NoErr
    ELSE IF \E n \in DOMAIN s.Services[iter[k]].Networks :
                /\ s.Services[iter[k]].Networks[n] \notin s.Networks
                /\ s.Services[iter[k]].Networks[n] # "default"
    THEN "service references undefined network"
    ELSE validateNetworks(s, iter, k + 1)

\* LXCStack.Validate (the services of the model mount no volumes)
StackValidate(s, iter) ==
    IF s.Version = "" THEN "'version' field is required"
    ELSE IF DOMAIN s.Services = {} THEN "'services' field is required"
    ELSE IF validateServices(s, iter, 1) # NoErr THEN validateServices(s, iter, 1)
    ELSE validateNetworks(s, iter, 1)

\* ------------------------------------------------------------------------
\* LXCStack.GetServiceDependencyOrder
\* ------------------------------------------------------------------------
\* s.Services[name]: the zero Service for a name that is not a key
DependsOnOf(s, name) ==
    IF name \in DOMAIN s.Services THEN s.Services[name].DependsOn ELSE <<>>

VisitState(order, visited, visiting, err, at) ==
    [order |-> order, visited |-> visited, visiting |-> visiting, err |-> err, at |-> at]

CycleErr == "circular dependency detected"

\* mutant: the service is appended before its dependencies are visited
RECURSIVE visitPreOrder(_, _, _), visitDepsPreOrder(_, _, _, _)
visitPreOrder(s, st, serviceName) ==
    IF serviceName \in st.visiting
    THEN [st EXCEPT !.err = CycleErr, !.at = serviceName]
    ELSE IF serviceName \in st.visited THEN st
    ELSE LET st1 == [st EXCEPT !.visiting = @ \cup {serviceName},
                               !.order = Append(@, serviceName)]
             st2 == visitDepsPreOrder(s, st1, DependsOnOf(s, serviceName), 1)
         IN IF st2.err # NoErr THEN st2
            ELSE [st2 EXCEPT !.visiting = @ \ {serviceName},
                             !.visited = @ \cup {serviceName}]

visitDepsPreOrder(s, st, deps, k) ==
    IF k > Len(deps) THEN st
    ELSE LET st1 == visitPreOrder(s, st, deps[k]) IN
         IF st1.err # NoErr THEN st1
         ELSE visitDepsPreOrder(s, st1, deps, k + 1)

\* the closure visit: st carries order, visited, visiting and the error
RECURSIVE visit(_, _, _), visitDeps(_, _, _, _)
visit(s, st, serviceName) ==
    IF serviceName \in st.visiting
    THEN [st EXCEPT !.err = CycleErr, !.at = serviceName]
    ELSE IF serviceName \in st.visited THEN st
    ELSE LET st1 == [st EXCEPT !.visiting = @ \cup {serviceName}]
             st2 == visitDeps(s, st1, DependsOnOf(s, serviceName), 1)
         IN IF st2.err # NoErr THEN st2
            ELSE [st2 EXCEPT !.visiting = @ \ {serviceName},
                             !.visited = @ \cup {serviceName},
                             !.order = Append(@, serviceName)]

visitDeps(s, st, deps, k) ==
    IF k > Len(deps) THEN st
    ELSE LET st1 == visit(s, st, deps[k]) IN
         IF st1.err # NoErr THEN st1
         ELSE visitDeps(s, st1, deps, k + 1)

\* mutant: the error names the service the traversal started from
RECURSIVE visitAllNamesRoot(_, _, _, _)
visitAllNamesRoot(s, st, iter, k) ==
    IF k > Len(iter) THEN st
    ELSE LET st1 == visit(s, st, iter[k]) IN
         IF st1.err # NoErr THEN [st1 EXCEPT !.at = iter[k]]
         ELSE visitAllNamesRoot(s, st1, iter, k + 1)

\* the loop over the services map, in the iteration order iter
RECURSIVE visitAll(_, _, _, _)
visitAll(s, st, iter, k) ==
    IF k > Len(iter) THEN st
    ELSE LET st1 == visit(s, st, iter[k]) IN
         IF st1.err # NoErr THEN st1
         ELSE visitAll(s, st1, iter, k + 1)

Resolved(order, err, at) == [order |-> order, err |-> err, at |-> at]

\* mutant: the order built so far is returned together with the error
ResolveReturnsPartial(s, iter) ==
    LET st == visitAll(s, VisitState(<<>>, {}, {}, NoErr, ""), iter, 1) IN
    Resolved(st.order, st.err, st.at)

GetServiceDependencyOrder(s, iter) ==
    LET st == visitAll(s, VisitState(<<>>, {}, {}, NoErr, ""), iter, 1) IN
    IF st.err # NoErr THEN Resolved(<<>>, st.err, st.at)
    ELSE Resolved(st.order, NoErr, "")

\* GetServiceDependencyOrder taken step by step: the position in the loop
\* over the services map (iter, i), the frames of the calls of visit that
\* have not returned (name, and k, the next dependency to visit), the
\* closure's order, visited and visiting, and the result
Walk(pc, iter, i, frames, order, visited, visiting, err, at, expanded) ==
    [pc |-> pc, iter |-> iter, i |-> i, frames |-> frames, order |-> order,
     visited |-> visited, visiting |-> visiting, err |-> err, at |-> at,
     expanded |-> expanded]

NoWalk == Walk("idle", <<>>, 0, <<>>, <<>>, {}, {}, NoErr, "", <<>>)

Frame(name, k) == [name |-> name, k |-> k]

\* visit(name), up to its loop over the dependencies: the cycle error, which
\* every caller returns at once; nil for a visited name; otherwise the name
\* is marked as being visited and its loop begins
visitEnter(w, name) ==
    IF name \in w.visiting
    THEN [w EXCEPT !.pc = "done", !.err = CycleErr, !.at = name,
                   !.order = <<>>, !.frames = <<>>]
    ELSE IF name \in w.visited THEN w
    ELSE [w EXCEPT !.visiting = @ \cup {name},
                   !.frames = Append(@, Frame(name, 1)),
                   !.expanded = Append(@, name)]

\* mutant: visit does not record the name as visited
visitReturnForgets(w, name) ==
    [w EXCEPT !.visiting = @ \ {name},
              !.order = Append(@, name),
              !.frames = SubSeq(@, 1, Len(@) - 1)]

\* visit(name) after its loop over the dependencies
visitReturn(w, name) ==
    [w EXCEPT !.visiting = @ \ {name},
              !.visited = @ \cup {name},
              !.order = Append(@, name),
              !.frames = SubSeq(@, 1, Len(@) - 1)]

\* ------------------------------------------------------------------------
\* State
\* ------------------------------------------------------------------------
VARIABLES
    lxcfile,        \* manifest handed to BuildTemplate
    buildArgs,      \* build arguments handed to BuildTemplate
    bpc,            \* position of the build: the phase about to run
    containerID,    \* ephemeral container id of the build
    deferArmed,     \* the deferred cleanup closure has been registered
    shouldCleanup,  \* BuildTemplate's local shouldCleanup
    stepIdx,        \* loop index (1-based) in the setup / cleanup loop
    executedSteps,  \* result.ExecutedSteps
    templatePath,   \* result.TemplatePath
    buildErr,       \* error returned by BuildTemplate / runBuild
    failedPhase,    \* history: phase whose failure ended the build
    curService,     \* service on whose behalf commands are issued ("" = none)
    cmds,           \* history: external commands issued, in order, by a build
                    \* run from the command line or since deployService was
                    \* entered for curService
    started,        \* history: services whose container's pct start, issued
                    \* by deployService in this run of Up, exited with 0
    projectName,    \* Orchestrator.projectName
    hooksRun,       \* history: the hook lists handed to executeHooks, in order
    walk,           \* a call of GetServiceDependencyOrder taken step by step:
                    \* its locals, the frames of visit, and the history of the
                    \* names whose dependency loop was entered
    stack,          \* the stack manifest loaded from the stack file
    verdicts,       \* history: what each call of Validate has returned
    resolved,       \* value returned by the last call of GetServiceDependencyOrder
    opc,            \* position of the orchestrator (Up / Down)
    upOrder,        \* Up's serviceOrder
    upPos,          \* Up's position (1-based) in serviceOrder
    upResult,       \* result.Services of Up, Nil when Up returns no result
    upErr,          \* error returned by Up
    templateName,   \* deployService's templateName
    containerConfig, \* deployService's containerConfig, Nil before it is built
    downOrder,      \* Down's serviceOrder, after the in-place reversal
    downPos,        \* Down's position (1-based) in serviceOrder
    downErr,        \* error returned by Down
    removed         \* history: the names passed to removeService, in order

buildVars == <<lxcfile, buildArgs, bpc, containerID, deferArmed, shouldCleanup, stepIdx,
               executedSteps, templatePath, buildErr, failedPhase>>
upVars == <<opc, upOrder, upPos, upResult, upErr, templateName, containerConfig, started>>
downVars == <<downOrder, downPos, downErr, removed>>
stackVars == <<projectName, stack, verdicts, hooksRun, walk, resolved, upVars, downVars>>
vars == <<buildVars, curService, cmds, stackVars>>

\* one external command: operation, container, issuing phase/step, exit ok
Cmd(op, id, by, ok) ==
    [op |-> op, id |-> id, by |-> by, ok |-> ok, svc |-> curService]

Label(kind, n) == <<kind, n>>

\* ------------------------------------------------------------------------
\* Builder: the steps
\* ------------------------------------------------------------------------
\* the number of pct commands a step issues when none of them fails
StepCmds(step) ==
    IF step.Run # NoCommand THEN 1
    ELSE IF step.Copy # Nil
    THEN (IF PathDir(step.Copy.Dest) \notin {RootDir, DotDir} THEN 1 ELSE 0) + 1
         + (IF step.Copy.Owner # "" THEN 1 ELSE 0)
         + (IF step.Copy.Mode # "" THEN 1 ELSE 0)
    ELSE IF step.Env # Nil THEN Cardinality(DOMAIN step.Env)
    ELSE 0

\* what the environment decides for one step: whether the copy source
\* exists, which of the step's commands exit non-zero, and the iteration
\* orders of the env map and of the build args map
StepOracles(step) ==
    [exists : IF step.Run = NoCommand /\ step.Copy # Nil THEN BOOLEAN ELSE {TRUE},
     fail : SUBSET (1..StepCmds(step)),
     envOrder : IF step.Env = Nil THEN {<<>>} ELSE Perms(DOMAIN step.Env),
     argOrder : Perms(DOMAIN buildArgs)]

StepOut(err, out) == [err |-> err, out |-> out]

\* fmt.Errorf("...: %w", err)
Wrap(msg, cause) == msg \o ": " \o cause

NoActions == "setup step has no actions"

\* strings.ReplaceAll for a non-empty old: the occurrences of old that do
\* not overlap, from the left, are replaced by new
RECURSIVE ReplaceAll(_, _, _)
ReplaceAll(text, old, new) ==
    IF text = <<>> THEN <<>>
    ELSE IF Len(old) <= Len(text) /\ SubSeq(text, 1, Len(old)) = old
    THEN new \o ReplaceAll(SubSeq(text, Len(old) + 1, Len(text)), old, new)
    ELSE <<Head(text)>> \o ReplaceAll(Tail(text), old, new)

\* Builder.expandBuildArgs: for each key, in the iteration order of the map,
\* ${key} and then $key are replaced by the key's value
RECURSIVE expandBuildArgs(_, _, _, _)
expandBuildArgs(command, args, order, k) ==
    IF k > Len(order) THEN command
    ELSE LET key == order[k]
             braced == ReplaceAll(command, <<"$", "{">> \o key \o <<"}">>, args[key])
             bare == ReplaceAll(braced, <<"$">> \o key, args[key])
         IN expandBuildArgs(bare, args, order, k + 1)

\* pct exec <id> -- sh -c <command>
RunCmd(id, by, ok, command) ==
    [op |-> "exec", id |-> id, by |-> by, ok |-> ok, svc |-> curService,
     command |-> command]

executeRunStep(id, step, stepName, o) ==
    IF DryRun THEN StepOut(NoErr, <<>>)
    ELSE LET ok == 1 \notin o.fail
             expandedCommand == expandBuildArgs(step.Run, buildArgs, o.argOrder, 1)
         IN StepOut(IF ok THEN NoErr ELSE "exit status",
                    <<RunCmd(id, stepName, ok, expandedCommand)>>)

\* mutant: a failed chown fails the step
executeCopyStepOwnerFatal(id, copyStep, stepName, o) ==
    IF DryRun THEN StepOut(NoErr, <<>>)
    ELSE IF ~o.exists THEN StepOut("source file/directory does not exist", <<>>)
    ELSE LET destDir == PathDir(copyStep.Dest)
             needDir == destDir # RootDir /\ destDir # DotDir
             pMk == 1
             pPush == IF needDir THEN 2 ELSE 1
             pOwn == pPush + 1
             pMod == IF copyStep.Owner # "" THEN pOwn + 1 ELSE pOwn
             mk == IF needDir THEN <<Cmd("mkdir", id, stepName, pMk \notin o.fail)>> ELSE <<>>
             push == <<Cmd("push", id, stepName, pPush \notin o.fail)>>
             own == IF copyStep.Owner # ""
                    THEN <<Cmd("chown", id, stepName, pOwn \notin o.fail)>> ELSE <<>>
             mod == IF copyStep.Mode # ""
                    THEN <<Cmd("chmod", id, stepName, pMod \notin o.fail)>> ELSE <<>>
         IN IF needDir /\ pMk \in o.fail
            THEN StepOut("failed to create destination directory", mk)
            ELSE IF pPush \in o.fail
            THEN StepOut("failed to copy files", mk \o push)
            ELSE IF copyStep.Owner # "" /\ pOwn \in o.fail
            THEN StepOut("failed to set ownership", mk \o push \o own)
            ELSE StepOut(NoErr, mk \o push \o own \o mod)

executeCopyStep(id, copyStep, stepName, o) ==
    IF DryRun THEN StepOut(NoErr, <<>>)
    ELSE IF ~o.exists THEN StepOut("source file/directory does not exist", <<>>)
    ELSE LET destDir == PathDir(copyStep.Dest)
             needDir == destDir # RootDir /\ destDir # DotDir
             pMk == 1
             pPush == IF needDir THEN 2 ELSE 1
             pOwn == pPush + 1
             pMod == IF copyStep.Owner # "" THEN pOwn + 1 ELSE pOwn
             mk == IF needDir THEN <<Cmd("mkdir", id, stepName, pMk \notin o.fail)>> ELSE <<>>
             push == <<Cmd("push", id, stepName, pPush \notin o.fail)>>
             own == IF copyStep.Owner # ""
                    THEN <<Cmd("chown", id, stepName, pOwn \notin o.fail)>> ELSE <<>>
             mod == IF copyStep.Mode # ""
                    THEN <<Cmd("chmod", id, stepName, pMod \notin o.fail)>> ELSE <<>>
         IN IF needDir /\ pMk \in o.fail
            THEN StepOut("failed to create destination directory", mk)
            ELSE IF pPush \in o.fail
            THEN StepOut("failed to copy files", mk \o push)
            ELSE StepOut(NoErr, mk \o push \o own \o mod)

RECURSIVE envLoop(_, _, _, _, _)
envLoop(id, stepName, o, k, out) ==
    IF k > Len(o.envOrder) THEN StepOut(NoErr, out)
    ELSE IF k \in o.fail
    THEN StepOut("failed to set environment variable",
                 Append(out, Cmd("env", id, stepName, FALSE)))
    ELSE envLoop(id, stepName, o, k + 1, Append(out, Cmd("env", id, stepName, TRUE)))

executeEnvStep(id, env, stepName, o) ==
    IF DryRun THEN StepOut(NoErr, <<>>)
    ELSE envLoop(id, stepName, o, 1, <<>>)

\* mutant: Copy is looked at before Run
executeSetupStepCopyFirst(id, step, stepName, o) ==
    IF step.Copy # Nil THEN executeCopyStep(id, step.Copy, stepName, o)
    ELSE IF step.Run # NoCommand THEN executeRunStep(id, step, stepName, o)
    ELSE IF step.Env # Nil THEN executeEnvStep(id, step.Env, stepName, o)
    ELSE StepOut(NoActions, <<>>)

executeSetupStep(id, step, stepName, o) ==
    IF step.Run # NoCommand THEN executeRunStep(id, step, stepName, o)
    ELSE IF step.Copy # Nil THEN executeCopyStep(id, step.Copy, stepName, o)
    ELSE IF step.Env # Nil THEN executeEnvStep(id, step.Env, stepName, o)
    ELSE StepOut(NoActions, <<>>)

\* applyContainerConfig: the arguments of the single `pct set`
configArgs(l) ==
    (IF l.Resources # Nil /\ l.Resources.Cores > 0 THEN <<"-cores">> ELSE <<>>)
    \o (IF l.Resources # Nil /\ l.Resources.Memory > 0 THEN <<"-memory">> ELSE <<>>)
    \o (IF l.Resources # Nil /\ l.Resources.Swap > 0 THEN <<"-swap">> ELSE <<>>)
    \o (IF l.Features # Nil
           /\ (l.Features.Nesting \/ l.Features.Keyctl \/ l.Features.Fuse)
        THEN <<"-features">> ELSE <<>>)

\* ------------------------------------------------------------------------
\* Builder.BuildTemplate, phase by phase
\* ------------------------------------------------------------------------
\* a failing phase returns; the deferred closure (if registered) runs next
Fail(phase, msg) ==
    /\ buildErr' = msg
    /\ failedPhase' = phase
    /\ bpc' = IF deferArmed' THEN "deferred" ELSE "returned"

\* mutant: the configuration is applied right after the readiness probes
AfterWaitSkipsSetup == "config"

AfterWait == IF Len(lxcfile.Setup) = 0 THEN "config" ELSE "setup"
AfterConfig == IF Len(lxcfile.Cleanup) = 0 THEN "stop" ELSE "cleanup"

\* runBuild: load, validate, then BuildTemplate
RunBuild ==
    /\ bpc = "cli"
    /\ LET verr == LXCfileValidate(lxcfile) IN
       IF verr # NoErr
       THEN /\ buildErr' = verr
            /\ failedPhase' = "validate"
            /\ bpc' = "returned"
       ELSE /\ bpc' = "allocate"
            /\ UNCHANGED <<buildErr, failedPhase>>
    /\ UNCHANGED <<lxcfile, buildArgs, containerID, deferArmed, shouldCleanup, stepIdx,
                   executedSteps, templatePath, curService, cmds>>
    /\ UNCHANGED stackVars

\* generateContainerID: time.Now().Unix()%100000 + 10000
BuildIDs == {BuildIDBase, BuildIDBase + BuildIDRange - 1}

Allocate ==
    /\ bpc = "allocate"
    /\ \E id \in BuildIDs :
        /\ id \in BuildIDBase..(BuildIDBase + BuildIDRange - 1)
        /\ containerID' = id
    /\ bpc' = "create"
    /\ executedSteps' = <<>>
    /\ UNCHANGED <<lxcfile, buildArgs, deferArmed, shouldCleanup, stepIdx, templatePath,
                   buildErr, failedPhase, curService, cmds>>
    /\ UNCHANGED stackVars

\* mutant: the deferred cleanup is registered before the create is attempted
CreateArmsCleanupFirst ==
    /\ bpc = "create"
    /\ \E ok \in BOOLEAN :
        /\ DryRun => ok
        /\ cmds' = IF DryRun THEN cmds
                   ELSE Append(cmds, Cmd("create", containerID, Label("Create", 0), ok))
        /\ shouldCleanup' = TRUE
        /\ deferArmed' = TRUE
        /\ IF ok
           THEN /\ bpc' = "start"
                /\ UNCHANGED <<buildErr, failedPhase>>
           ELSE Fail("create", "failed to create temporary container")
    /\ UNCHANGED <<lxcfile, buildArgs, containerID, stepIdx, executedSteps, templatePath, curService>>
    /\ UNCHANGED stackVars

Create ==
    /\ bpc = "create"
    /\ \E ok \in BOOLEAN :
        /\ DryRun => ok
        /\ cmds' = IF DryRun THEN cmds
                   ELSE Append(cmds, Cmd("create", containerID, Label("Create", 0), ok))
        /\ IF ok
           THEN /\ shouldCleanup' = TRUE
                /\ deferArmed' = TRUE
                /\ bpc' = "start"
                /\ UNCHANGED <<buildErr, failedPhase>>
           ELSE /\ UNCHANGED <<shouldCleanup, deferArmed>>
                /\ Fail("create", "failed to create temporary container")
    /\ UNCHANGED <<lxcfile, buildArgs, containerID, stepIdx, executedSteps, templatePath, curService>>
    /\ UNCHANGED stackVars

Start ==
    /\ bpc = "start"
    /\ \E ok \in BOOLEAN :
        /\ DryRun => ok
        /\ cmds' = IF DryRun THEN cmds
                   ELSE Append(cmds, Cmd("start", containerID, Label("Start", 0), ok))
        /\ UNCHANGED <<shouldCleanup, deferArmed>>
        /\ IF ok
           THEN /\ bpc' = "wait"
                /\ UNCHANGED <<buildErr, failedPhase>>
           ELSE Fail("start", "failed to start temporary container")
    /\ UNCHANGED <<lxcfile, buildArgs, containerID, stepIdx, executedSteps, templatePath, curService>>
    /\ UNCHANGED stackVars

\* waitForContainer: notReady is the number of probes that fail before the
\* container first answers
NotReadyCounts == {0, MaxProbes - 1, MaxProbes}

\* mutant: the loop probes once more after its last failure
ProbesPastLimit(notReady) ==
    [k \in 1..(notReady + 1) |->
        Cmd("exec", containerID, Label("AwaitReady", k), k > notReady)]

Probes(notReady) ==
    [k \in 1..Min(notReady + 1, MaxProbes) |->
        Cmd("exec", containerID, Label("AwaitReady", k), k > notReady)]

AwaitReady ==
    /\ bpc = "wait"
    /\ \E notReady \in NotReadyCounts :
        /\ DryRun => notReady = 0
        /\ cmds' = IF DryRun THEN cmds ELSE cmds \o Probes(notReady)
        /\ UNCHANGED <<shouldCleanup, deferArmed>>
        /\ IF notReady < MaxProbes
           THEN /\ bpc' = AfterWait
                /\ UNCHANGED <<buildErr, failedPhase>>
           ELSE Fail("wait", "container failed to become ready")
    /\ stepIdx' = 1
    /\ UNCHANGED <<lxcfile, buildArgs, containerID, executedSteps, templatePath, curService>>
    /\ UNCHANGED stackVars

\* mutant: a failing setup step is only logged, as in the cleanup loop
RunSetupStepContinues ==
    /\ bpc = "setup"
    /\ stepIdx <= Len(lxcfile.Setup)
    /\ LET stepName == Label("Step", stepIdx) IN
       \E o \in StepOracles(lxcfile.Setup[stepIdx]) :
        LET r == executeSetupStep(containerID, lxcfile.Setup[stepIdx], stepName, o) IN
        /\ cmds' = cmds \o r.out
        /\ executedSteps' = IF r.err # NoErr THEN executedSteps
                            ELSE Append(executedSteps, stepName)
        /\ failedPhase' = IF r.err # NoErr THEN "setup" ELSE failedPhase
    /\ stepIdx' = stepIdx + 1
    /\ bpc' = IF stepIdx = Len(lxcfile.Setup) THEN "config" ELSE "setup"
    /\ UNCHANGED <<lxcfile, buildArgs, containerID, deferArmed, shouldCleanup, templatePath,
                   buildErr, curService>>
    /\ UNCHANGED stackVars

RunSetupStep ==
    /\ bpc = "setup"
    /\ stepIdx <= Len(lxcfile.Setup)
    /\ LET stepName == Label("Step", stepIdx) IN
       \E o \in StepOracles(lxcfile.Setup[stepIdx]) :
        LET r == executeSetupStep(containerID, lxcfile.Setup[stepIdx], stepName, o) IN
        /\ cmds' = cmds \o r.out
        /\ UNCHANGED <<shouldCleanup, deferArmed>>
        /\ IF r.err # NoErr
           THEN /\ Fail("setup", Wrap("failed to execute step", r.err))
                /\ UNCHANGED <<stepIdx, executedSteps>>
           ELSE /\ executedSteps' = Append(executedSteps, stepName)
                /\ stepIdx' = stepIdx + 1
                /\ bpc' = IF stepIdx = Len(lxcfile.Setup) THEN "config" ELSE "setup"
                /\ UNCHANGED <<buildErr, failedPhase>>
    /\ UNCHANGED <<lxcfile, buildArgs, containerID, templatePath, curService>>
    /\ UNCHANGED stackVars

ApplyConfig ==
    /\ bpc = "config"
    /\ \E ok \in BOOLEAN :
        LET issue == ~DryRun /\ Len(configArgs(lxcfile)) > 0 IN
        /\ ~issue => ok
        /\ cmds' = IF issue
                   THEN Append(cmds, Cmd("set", containerID, Label("ApplyConfig", 0), ok))
                   ELSE cmds
        /\ UNCHANGED <<shouldCleanup, deferArmed>>
        /\ IF ok
           THEN /\ bpc' = AfterConfig
                /\ UNCHANGED <<buildErr, failedPhase>>
           ELSE Fail("config", "failed to apply container configuration")
    /\ stepIdx' = 1
    /\ UNCHANGED <<lxcfile, buildArgs, containerID, executedSteps, templatePath, curService>>
    /\ UNCHANGED stackVars

\* mutant: a failing cleanup step ends the build like a failing setup step
RunCleanupStepAborts ==
    /\ bpc = "cleanup"
    /\ stepIdx <= Len(lxcfile.Cleanup)
    /\ LET stepName == Label("Cleanup", stepIdx) IN
       \E o \in StepOracles(lxcfile.Cleanup[stepIdx]) :
        LET r == executeSetupStep(containerID, lxcfile.Cleanup[stepIdx], stepName, o) IN
        /\ cmds' = cmds \o r.out
        /\ UNCHANGED <<shouldCleanup, deferArmed>>
        /\ IF r.err # NoErr
           THEN /\ Fail("cleanup", "failed to execute cleanup step")
                /\ UNCHANGED <<executedSteps, stepIdx>>
           ELSE /\ executedSteps' = Append(executedSteps, stepName)
                /\ stepIdx' = stepIdx + 1
                /\ bpc' = IF stepIdx = Len(lxcfile.Cleanup) THEN "stop" ELSE "cleanup"
                /\ UNCHANGED <<buildErr, failedPhase>>
    /\ UNCHANGED <<lxcfile, buildArgs, containerID, templatePath, curService>>
    /\ UNCHANGED stackVars

\* mutant: the label of a cleanup step is recorded whether it failed or not
RunCleanupStepLabelsFailure ==
    /\ bpc = "cleanup"
    /\ stepIdx <= Len(lxcfile.Cleanup)
    /\ LET stepName == Label("Cleanup", stepIdx) IN
       \E o \in StepOracles(lxcfile.Cleanup[stepIdx]) :
        LET r == executeSetupStep(containerID, lxcfile.Cleanup[stepIdx], stepName, o) IN
        /\ cmds' = cmds \o r.out
        /\ executedSteps' = Append(executedSteps, stepName)
    /\ stepIdx' = stepIdx + 1
    /\ bpc' = IF stepIdx = Len(lxcfile.Cleanup) THEN "stop" ELSE "cleanup"
    /\ UNCHANGED <<lxcfile, buildArgs, containerID, deferArmed, shouldCleanup, templatePath,
                   buildErr, failedPhase, curService>>
    /\ UNCHANGED stackVars

RunCleanupStep ==
    /\ bpc = "cleanup"
    /\ stepIdx <= Len(lxcfile.Cleanup)
    /\ LET stepName == Label("Cleanup", stepIdx) IN
       \E o \in StepOracles(lxcfile.Cleanup[stepIdx]) :
        LET r == executeSetupStep(containerID, lxcfile.Cleanup[stepIdx], stepName, o) IN
        /\ cmds' = cmds \o r.out
        /\ executedSteps' = IF r.err # NoErr THEN executedSteps
                            ELSE Append(executedSteps, stepName)
    /\ stepIdx' = stepIdx + 1
    /\ bpc' = IF stepIdx = Len(lxcfile.Cleanup) THEN "stop" ELSE "cleanup"
    /\ UNCHANGED <<lxcfile, buildArgs, containerID, deferArmed, shouldCleanup, templatePath,
                   buildErr, failedPhase, curService>>
    /\ UNCHANGED stackVars

\* mutant: a failing stop gives up the cleanup of the container
StopFailureDisarms ==
    /\ bpc = "stop"
    /\ \E ok \in BOOLEAN :
        /\ DryRun => ok
        /\ cmds' = IF DryRun THEN cmds
                   ELSE Append(cmds, Cmd("stop", containerID, Label("Stop", 0), ok))
        /\ UNCHANGED deferArmed
        /\ IF ok
           THEN /\ bpc' = "export"
                /\ UNCHANGED <<buildErr, failedPhase, shouldCleanup>>
           ELSE /\ shouldCleanup' = FALSE
                /\ Fail("stop", "failed to stop container")
    /\ UNCHANGED <<lxcfile, buildArgs, containerID, stepIdx, executedSteps, templatePath, curService>>
    /\ UNCHANGED stackVars

Stop ==
    /\ bpc = "stop"
    /\ \E ok \in BOOLEAN :
        /\ DryRun => ok
        /\ cmds' = IF DryRun THEN cmds
                   ELSE Append(cmds, Cmd("stop", containerID, Label("Stop", 0), ok))
        /\ UNCHANGED <<shouldCleanup, deferArmed>>
        /\ IF ok
           THEN /\ bpc' = "export"
                /\ UNCHANGED <<buildErr, failedPhase>>
           ELSE Fail("stop", "failed to stop container")
    /\ UNCHANGED <<lxcfile, buildArgs, containerID, stepIdx, executedSteps, templatePath, curService>>
    /\ UNCHANGED stackVars

\* mutant: shouldCleanup is left set after a successful export
ExportKeepsCleanup ==
    /\ bpc = "export"
    /\ \E ok \in BOOLEAN :
        /\ DryRun => ok
        /\ cmds' = IF DryRun THEN cmds
                   ELSE Append(cmds, Cmd("template", containerID, Label("Export", 0), ok))
        /\ UNCHANGED <<deferArmed, shouldCleanup>>
        /\ IF ok
           THEN /\ templatePath' = containerID
                /\ bpc' = "deferred"
                /\ UNCHANGED <<buildErr, failedPhase>>
           ELSE /\ UNCHANGED templatePath
                /\ Fail("export", "failed to export template")
    /\ UNCHANGED <<lxcfile, buildArgs, containerID, stepIdx, executedSteps, curService>>
    /\ UNCHANGED stackVars

\* exportTemplate, then shouldCleanup = false and the successful return
Export ==
    /\ bpc = "export"
    /\ \E ok \in BOOLEAN :
        /\ DryRun => ok
        /\ cmds' = IF DryRun THEN cmds
                   ELSE Append(cmds, Cmd("template", containerID, Label("Export", 0), ok))
        /\ UNCHANGED deferArmed
        /\ IF ok
           THEN /\ templatePath' = containerID
                /\ shouldCleanup' = FALSE
                /\ bpc' = "deferred"
                /\ UNCHANGED <<buildErr, failedPhase>>
           ELSE /\ UNCHANGED <<templatePath, shouldCleanup>>
                /\ Fail("export", "failed to export template")
    /\ UNCHANGED <<lxcfile, buildArgs, containerID, stepIdx, executedSteps, curService>>
    /\ UNCHANGED stackVars

\* mutant: the error of the stop is returned instead of being ignored
cleanupReturnsOnStopError(id, stopOk, destroyOk) ==
    IF DryRun THEN <<>>
    ELSE IF ~stopOk THEN << Cmd("stop", id, Label("Finalize", 0), stopOk) >>
    ELSE << Cmd("stop", id, Label("Finalize", 0), stopOk),
            Cmd("destroy", id, Label("Finalize", 0), destroyOk) >>

\* cleanupTempContainer: best-effort stop, then destroy
cleanupTempContainer(id, stopOk, destroyOk) ==
    IF DryRun THEN <<>>
    ELSE << Cmd("stop", id, Label("Finalize", 0), stopOk),
            Cmd("destroy", id, Label("Finalize", 0), destroyOk) >>

\* mutant: the deferred closure returns the error of a failed cleanup
FinalizeReturnsCleanupError ==
    /\ bpc = "deferred"
    /\ \E stopOk \in BOOLEAN, destroyOk \in BOOLEAN :
        /\ ~shouldCleanup => (stopOk /\ destroyOk)
        /\ cmds' = IF shouldCleanup
                   THEN cmds \o cleanupTempContainer(containerID, stopOk, destroyOk)
                   ELSE cmds
        /\ buildErr' = IF shouldCleanup /\ ~destroyOk
                       THEN "failed to cleanup temporary container"
                       ELSE buildErr
    /\ bpc' = "returned"
    /\ UNCHANGED <<lxcfile, buildArgs, containerID, deferArmed, shouldCleanup, stepIdx,
                   executedSteps, templatePath, failedPhase, curService>>
    /\ UNCHANGED stackVars

\* the deferred closure of BuildTemplate, run on every return after Create
Finalize ==
    /\ bpc = "deferred"
    /\ \E stopOk \in BOOLEAN, destroyOk \in BOOLEAN :
        /\ ~shouldCleanup => (stopOk /\ destroyOk)
        /\ cmds' = IF shouldCleanup
                   THEN cmds \o cleanupTempContainer(containerID, stopOk, destroyOk)
                   ELSE cmds
    /\ bpc' = "returned"
    /\ UNCHANGED <<lxcfile, buildArgs, containerID, deferArmed, shouldCleanup, stepIdx,
                   executedSteps, templatePath, buildErr, failedPhase, curService>>
    /\ UNCHANGED stackVars

\* ------------------------------------------------------------------------
\* Orchestrator (package runner)
\* ------------------------------------------------------------------------
ProjectName == "app"

\* the characters of the names of the model, as code points
Chars ==
    [app |-> <<97, 112, 112>>, db |-> <<100, 98>>,
     api |-> <<97, 112, 105>>, web |-> <<119, 101, 98>>,
     shop |-> <<115, 104, 111, 112>>, aaa |-> <<97, 97, 97>>,
     bbi |-> <<98, 98, 105>>]

ServiceIDBase == 200
HashModulus == 1000
HashFactor == 31

RECURSIVE hashLoop(_, _, _)
hashLoop(chars, k, hash) ==
    IF k > Len(chars) THEN hash
    ELSE hashLoop(chars, k + 1, (hash * HashFactor + chars[k]) % HashModulus)

\* mutant: the identifier also counts the services deployed before
generateContainerIDByPosition(serviceName) ==
    ServiceIDBase + upPos + hashLoop(Chars[projectName] \o Chars[serviceName], 1, 0)

\* Orchestrator.generateContainerID
generateContainerID(serviceName) ==
    ServiceIDBase + hashLoop(Chars[projectName] \o Chars[serviceName], 1, 0)

\* DeploymentResult, of which the model keeps the service outcomes
DeploymentResult(services) == [Services |-> services]

ServiceResult(name, id, status, err) ==
    [Name |-> name, ContainerID |-> id, Status |-> status, Error |-> err]

\* manifests that LoadLXCfile can find at the build context of a service
LoadError == [loadError |-> TRUE]

StackManifests == {LXCfile("ubuntu:22.04", <<RunOnly>>, <<RunOnly>>, Nil, Nil)}

\* what LXCfile.yml of a build context may hold: the one manifest of ./app,
\* any manifest of the catalog elsewhere
AnyContext == "./any"

LXCfilesAt(context) == IF context = AnyContext THEN Manifests ELSE StackManifests

\* Orchestrator.executeHooks: returns nil
executeHooks(hooks) == NoErr

\* `if stack.Hooks != nil && len(stack.Hooks.X) > 0 { executeHooks(...) }`,
\* the error of executeHooks being logged only
RunHooks(log, field) ==
    IF stack.Hooks # Nil /\ Len(stack.Hooks[field]) > 0
    THEN Append(log, field)
    ELSE log

\* mutant: Up deploys in map order when the resolver reports a cycle
UpBeginDeploysOnCycle ==
    /\ opc = "idle"
    /\ stack # Nil
    /\ \E iterV \in Perms(DOMAIN stack.Services), iterR \in Perms(DOMAIN stack.Services) :
        LET verr == StackValidate(stack, iterV)
            r == GetServiceDependencyOrder(stack, iterR)
        IN IF verr # NoErr
           THEN /\ upErr' = "invalid stack configuration"
                /\ upResult' = Nil
                /\ opc' = "upReturned"
                /\ UNCHANGED <<resolved, upOrder, upPos>>
           ELSE /\ resolved' = r
                /\ upResult' = DeploymentResult(<<>>)
                /\ upOrder' = IF r.err # NoErr THEN iterR ELSE r.order
                /\ upPos' = 1
                /\ upErr' = NoErr
                /\ opc' = "deploy"
    /\ started' = {}
    /\ hooksRun' = IF opc' = "upReturned" /\ upErr' = NoErr
                   THEN RunHooks(hooksRun, "PostStart") ELSE hooksRun
    /\ UNCHANGED <<buildVars, curService, cmds, projectName, stack, verdicts, walk, templateName,
                   containerConfig, downVars>>

\* Up, from LoadLXCStack to the start of the deploy loop
UpBegin ==
    /\ opc = "idle"
    /\ stack # Nil
    /\ \E iterV \in Perms(DOMAIN stack.Services), iterR \in Perms(DOMAIN stack.Services) :
        LET verr == StackValidate(stack, iterV)
            r == GetServiceDependencyOrder(stack, iterR)
        IN IF verr # NoErr
           THEN /\ upErr' = "invalid stack configuration"
                /\ upResult' = Nil
                /\ opc' = "upReturned"
                /\ UNCHANGED <<resolved, upOrder, upPos>>
           ELSE /\ resolved' = r
                /\ upResult' = DeploymentResult(<<>>)
                /\ IF r.err # NoErr
                   THEN /\ upErr' = "failed to resolve service dependencies"
                        /\ opc' = "upReturned"
                        /\ UNCHANGED <<upOrder, upPos>>
                   ELSE /\ upOrder' = r.order
                        /\ upPos' = 1
                        /\ upErr' = NoErr
                        /\ opc' = IF Len(r.order) = 0 THEN "upReturned" ELSE "deploy"
    /\ started' = {}
    /\ hooksRun' = IF opc' = "upReturned" /\ upErr' = NoErr
                   THEN RunHooks(hooksRun, "PostStart") ELSE hooksRun
    /\ UNCHANGED <<buildVars, curService, cmds, projectName, stack, verdicts, walk, templateName,
                   containerConfig, downVars>>

\* mutant: Up returns the error without the outcome of the failing service
ServiceFailedDropsResult(name, id, err) ==
    /\ upResult' = upResult
    /\ upErr' = "failed to deploy service"
    /\ opc' = "upReturned"
    /\ UNCHANGED <<upOrder, upPos>>

\* mutant: the outcome of a failed service is marked as running
ServiceFailedMarksRunning(name, id, err) ==
    /\ upResult' = DeploymentResult(Append(upResult.Services,
                                          ServiceResult(name, id, "running", err)))
    /\ upErr' = "failed to deploy service"
    /\ opc' = "upReturned"
    /\ UNCHANGED <<upOrder, upPos>>

\* deployService returns a result that carries an error: Up appends it and
\* returns the partial result with the error
ServiceFailed(name, id, err) ==
    /\ upResult' = DeploymentResult(Append(upResult.Services,
                                          ServiceResult(name, id, "", err)))
    /\ upErr' = "failed to deploy service"
    /\ opc' = "upReturned"
    /\ UNCHANGED <<upOrder, upPos>>

\* mutant: the deploy loop walks the order from its end
NextServiceFromEnd == upOrder[Len(upOrder) + 1 - upPos]

\* the loop variable of Up's deploy loop
NextService == upOrder[upPos]

\* the locals of a call of BuildTemplate when the call begins
FreshLocals ==
    /\ containerID' = 0
    /\ deferArmed' = FALSE
    /\ shouldCleanup' = FALSE
    /\ stepIdx' = 0
    /\ executedSteps' = <<>>
    /\ templatePath' = 0
    /\ buildErr' = NoErr
    /\ failedPhase' = "none"

\* ensureTemplate calls BuildTemplate on the manifest it loaded, with the
\* Args of the build configuration: none for a build given as a directory
EnterBuild(l) ==
    /\ lxcfile' = l
    /\ buildArgs' = NoArgs
    /\ bpc' = "allocate"
    /\ FreshLocals

\* ensureTemplate goes without a build; of the build of an earlier service
\* nothing is left
NoBuildCall ==
    /\ lxcfile' = Nil
    /\ buildArgs' = NoArgs
    /\ bpc' = "idle"
    /\ FreshLocals

\* deployService up to the call of BuildTemplate: ensureTemplate
EnsureTemplate ==
    /\ opc = "deploy"
    /\ LET name == NextService
           service == stack.Services[name]
       IN /\ curService' = name
          /\ IF service.Template # NoTemplate
             THEN /\ templateName' = service.Template
                  /\ opc' = "create"
                  /\ NoBuildCall
                  /\ UNCHANGED <<upOrder, upPos, upResult, upErr>>
             ELSE IF GetBuildConfig(service) = Nil
             THEN /\ ServiceFailed(name, 0, "must specify either 'template' or 'build'")
                  /\ NoBuildCall
                  /\ templateName' = NoTemplate
             ELSE \E l \in LXCfilesAt(GetBuildConfig(service).Context) \cup {LoadError} :
                    IF l = LoadError
                    THEN /\ ServiceFailed(name, 0, "failed to load LXCfile")
                         /\ NoBuildCall
                         /\ templateName' = NoTemplate
                    ELSE /\ EnterBuild(l)
                         /\ opc' = "building"
                         /\ templateName' = NoTemplate
                         /\ UNCHANGED <<upOrder, upPos, upResult, upErr>>
    /\ cmds' = <<>>
    /\ containerConfig' = Nil
    /\ UNCHANGED <<projectName, stack, verdicts, hooksRun, walk, resolved, started, downVars>>

\* mutant: ensureTemplate returns the template name it generated
BuildReturnedNamesTemplate ==
    /\ opc = "building"
    /\ bpc = "returned"
    /\ bpc' = "idle"
    /\ IF buildErr # NoErr
       THEN /\ ServiceFailed(curService, 0, "failed to build template")
            /\ UNCHANGED templateName
       ELSE /\ templateName' = TemplateName(projectName \o "-" \o curService \o ":latest")
            /\ opc' = "create"
            /\ UNCHANGED <<upOrder, upPos, upResult, upErr>>
    /\ UNCHANGED <<lxcfile, buildArgs, containerID, deferArmed, shouldCleanup, stepIdx,
                   executedSteps, templatePath, buildErr, failedPhase,
                   curService, cmds, projectName, stack, verdicts, hooksRun, walk, resolved,
                   containerConfig, started, downVars>>

\* ensureTemplate after BuildTemplate has returned
BuildReturned ==
    /\ opc = "building"
    /\ bpc = "returned"
    /\ bpc' = "idle"
    /\ IF buildErr # NoErr
       THEN /\ ServiceFailed(curService, 0, "failed to build template")
            /\ UNCHANGED templateName
       ELSE /\ templateName' = Itoa(templatePath)
            /\ opc' = "create"
            /\ UNCHANGED <<upOrder, upPos, upResult, upErr>>
    /\ UNCHANGED <<lxcfile, buildArgs, containerID, deferArmed, shouldCleanup, stepIdx,
                   executedSteps, templatePath, buildErr, failedPhase,
                   curService, cmds, projectName, stack, verdicts, hooksRun, walk, resolved,
                   containerConfig, started, downVars>>

\* Client.CreateContainer: clone and configure for a numeric template,
\* create otherwise
clientCreateContainer(vmid, template, cloneOk, setOk, createOk) ==
    IF DryRun THEN StepOut(NoErr, <<>>)
    ELSE IF template.numeric
    THEN IF ~cloneOk
         THEN StepOut("exit status", <<Cmd("clone", vmid, Label("Deploy", 0), FALSE)>>)
         ELSE StepOut(IF setOk THEN NoErr ELSE "exit status",
                      <<Cmd("clone", vmid, Label("Deploy", 0), TRUE),
                        Cmd("set", vmid, Label("Deploy", 0), setOk)>>)
    ELSE StepOut(IF createOk THEN NoErr ELSE "exit status",
                 <<Cmd("create", vmid, Label("Deploy", 0), createOk)>>)

\* buildContainerConfig, the resource limits of the configuration: the
\* service's own value where positive; memory and cores, when still 0, from
\* the stack's default resources
buildContainerConfig(service, s) ==
    LET own(field) == IF service.Resources # Nil /\ service.Resources[field] > 0
                      THEN service.Resources[field] ELSE 0
        hasDefaults == s.Settings # Nil /\ s.Settings.DefaultResources # Nil
    IN [Memory |-> IF own("Memory") = 0 /\ hasDefaults
                   THEN s.Settings.DefaultResources.Memory ELSE own("Memory"),
        Cores |-> IF own("Cores") = 0 /\ hasDefaults
                  THEN s.Settings.DefaultResources.Cores ELSE own("Cores"),
        Swap |-> own("Swap")]

\* deployService: generateContainerID, buildContainerConfig, CreateContainer
\* mutant: a failed create stops a service that was started before
CreateContainerRollsBack ==
    /\ opc = "create"
    /\ LET vmid == generateContainerID(curService) IN
       \E cloneOk \in BOOLEAN, setOk \in BOOLEAN, createOk \in BOOLEAN :
        LET r == clientCreateContainer(vmid, templateName, cloneOk, setOk, createOk) IN
        /\ cmds' = IF r.err # NoErr /\ started # {}
                   THEN cmds \o r.out \o
                        <<Cmd("stop", generateContainerID(CHOOSE s \in started : TRUE),
                              Label("Deploy", 0), TRUE)>>
                   ELSE cmds \o r.out
        /\ containerConfig' = buildContainerConfig(stack.Services[curService], stack)
        /\ IF r.err # NoErr
           THEN ServiceFailed(curService, vmid, "failed to create container")
           ELSE /\ opc' = "start"
                /\ UNCHANGED <<upOrder, upPos, upResult, upErr>>
    /\ UNCHANGED <<buildVars, curService, projectName, stack, verdicts, hooksRun, walk, resolved, templateName, started, downVars>>

CreateContainer ==
    /\ opc = "create"
    /\ LET vmid == generateContainerID(curService) IN
       \E cloneOk \in BOOLEAN, setOk \in BOOLEAN, createOk \in BOOLEAN :
        LET r == clientCreateContainer(vmid, templateName, cloneOk, setOk, createOk) IN
        /\ cmds' = cmds \o r.out
        /\ containerConfig' = buildContainerConfig(stack.Services[curService], stack)
        /\ IF r.err # NoErr
           THEN ServiceFailed(curService, vmid, "failed to create container")
           ELSE /\ opc' = "start"
                /\ UNCHANGED <<upOrder, upPos, upResult, upErr>>
    /\ UNCHANGED <<buildVars, curService, projectName, stack, verdicts, hooksRun, walk, resolved, templateName, started, downVars>>

\* Client.StartContainer
clientStartContainer(vmid, ok) ==
    IF DryRun THEN StepOut(NoErr, <<>>)
    ELSE StepOut(IF ok THEN NoErr ELSE "exit status",
                 <<Cmd("start", vmid, Label("Deploy", 0), ok)>>)

\* mutant: Up keeps deploying after a service has failed to start
StartContainerKeepsGoing ==
    /\ opc = "start"
    /\ LET vmid == generateContainerID(curService) IN
       \E ok \in BOOLEAN :
        LET r == clientStartContainer(vmid, ok) IN
        /\ cmds' = cmds \o r.out
        /\ started' = IF r.err = NoErr THEN started \cup {curService} ELSE started
        /\ upResult' = DeploymentResult(Append(upResult.Services,
                ServiceResult(curService, vmid, IF r.err # NoErr THEN "" ELSE "running",
                              IF r.err # NoErr THEN "failed to start container" ELSE NoErr)))
        /\ upErr' = IF r.err # NoErr THEN "failed to deploy service" ELSE upErr
        /\ upPos' = upPos + 1
        /\ opc' = IF upPos = Len(upOrder) THEN "upReturned" ELSE "deploy"
        /\ UNCHANGED upOrder
    /\ hooksRun' = IF opc' = "upReturned" /\ upErr' = NoErr
                   THEN RunHooks(hooksRun, "PostStart") ELSE hooksRun
    /\ UNCHANGED <<buildVars, curService, projectName, stack, verdicts, walk, resolved, templateName,
                   containerConfig, downVars>>

\* deployService from StartContainer on, and the rest of Up's loop body
StartContainer ==
    /\ opc = "start"
    /\ LET vmid == generateContainerID(curService) IN
       \E ok \in BOOLEAN :
        LET r == clientStartContainer(vmid, ok) IN
        /\ cmds' = cmds \o r.out
        /\ started' = IF r.err = NoErr THEN started \cup {curService} ELSE started
        /\ IF r.err # NoErr
           THEN ServiceFailed(curService, vmid, "failed to start container")
           ELSE /\ upResult' = DeploymentResult(Append(upResult.Services,
                                      ServiceResult(curService, vmid, "running", NoErr)))
                /\ upPos' = upPos + 1
                /\ opc' = IF upPos = Len(upOrder) THEN "upReturned" ELSE "deploy"
                /\ UNCHANGED <<upOrder, upErr>>
    /\ hooksRun' = IF opc' = "upReturned" /\ upErr' = NoErr
                   THEN RunHooks(hooksRun, "PostStart") ELSE hooksRun
    /\ UNCHANGED <<buildVars, curService, projectName, stack, verdicts, walk, resolved, templateName,
                   containerConfig, downVars>>

\* mutant: the exchange overwrites one element before it has been saved
SwapOverwrites(q, a, b) == [q EXCEPT ![a] = q[b]]

\* the in-place reversal loop of Down (indices of the code are 0-based)
Swap(q, a, b) == [q EXCEPT ![a] = q[b], ![b] = q[a]]

RECURSIVE reverseLoop(_, _)
reverseLoop(q, i) ==
    IF i < 0 THEN q
    ELSE reverseLoop(Swap(q, i + 1, (Len(q) - 1 - i) + 1), i - 1)

\* mutant: the loop starts one position too low
reverseSkipsInner(q) == reverseLoop(q, (Len(q) \div 2) - 2)

reverseInPlace(q) == reverseLoop(q, (Len(q) \div 2) - 1)

\* the process that ran Up exits: of its memory nothing is left; the model
\* keeps the record of its order and of its error
UpExit ==
    /\ opc = "upReturned"
    /\ opc' = "upExited"
    /\ bpc' = "idle"
    /\ lxcfile' = Nil
    /\ buildArgs' = NoArgs
    /\ containerID' = 0
    /\ deferArmed' = FALSE
    /\ shouldCleanup' = FALSE
    /\ stepIdx' = 0
    /\ executedSteps' = <<>>
    /\ templatePath' = 0
    /\ buildErr' = NoErr
    /\ failedPhase' = "none"
    /\ curService' = ""
    /\ cmds' = <<>>
    /\ upPos' = 0
    /\ upResult' = Nil
    /\ templateName' = NoTemplate
    /\ containerConfig' = Nil
    /\ started' = {}
    /\ UNCHANGED <<projectName, stack, verdicts, hooksRun, walk, resolved, upOrder, upErr, downVars>>

\* Down, from LoadLXCStack to the start of the removal loop, in a process
\* of its own
DownBegin ==
    /\ opc \in {"idle", "upExited"}
    /\ stack # Nil
    /\ \E iter \in Perms(DOMAIN stack.Services) :
        LET r == GetServiceDependencyOrder(stack, iter) IN
        /\ resolved' = r
        /\ IF r.err # NoErr
           THEN /\ downErr' = "failed to resolve service dependencies"
                /\ opc' = "downReturned"
                /\ UNCHANGED <<downOrder, downPos>>
           ELSE /\ downOrder' = reverseInPlace(r.order)
                /\ downPos' = 1
                /\ downErr' = NoErr
                /\ opc' = IF Len(r.order) = 0 THEN "downReturned" ELSE "remove"
    /\ removed' = <<>>
    /\ hooksRun' = IF opc' = "downReturned" /\ downErr' = NoErr
                   THEN RunHooks(RunHooks(hooksRun, "PreStop"), "PostStop")
                   ELSE RunHooks(hooksRun, "PreStop")
    /\ UNCHANGED <<buildVars, curService, cmds, projectName, stack, verdicts, walk, upOrder, upPos, upResult, upErr,
                   templateName, containerConfig, started>>

\* Orchestrator.removeService: logs the name and returns nil
removeService(serviceName) == StepOut(NoErr, <<>>)

\* one iteration of Down's removal loop; after the last one Down returns nil
RemoveService ==
    /\ opc = "remove"
    /\ LET r == removeService(downOrder[downPos]) IN
        /\ cmds' = cmds \o r.out
        /\ removed' = Append(removed, downOrder[downPos])
    /\ downPos' = downPos + 1
    /\ opc' = IF downPos = Len(downOrder) THEN "downReturned" ELSE "remove"
    /\ hooksRun' = IF opc' = "downReturned"
                   THEN RunHooks(hooksRun, "PostStop") ELSE hooksRun
    /\ UNCHANGED <<buildVars, curService, projectName, stack, verdicts, walk, resolved, upOrder, upPos, upResult,
                   upErr, templateName, containerConfig, started,
                   downOrder, downErr>>

\* ------------------------------------------------------------------------
\* pxc build
\* ------------------------------------------------------------------------
\* the build variables before any build has been entered
BuildIdle ==
    /\ bpc = "idle"
    /\ lxcfile = Nil
    /\ buildArgs = NoArgs
    /\ containerID = 0
    /\ deferArmed = FALSE
    /\ shouldCleanup = FALSE
    /\ stepIdx = 0
    /\ executedSteps = <<>>
    /\ templatePath = 0
    /\ buildErr = NoErr
    /\ failedPhase = "none"
    /\ curService = ""
    /\ cmds = <<>>

NoResolved == Resolved(<<>>, "unset", "")

\* the variables of a new Orchestrator, its project name apart
OrchestratorFresh ==
    /\ opc = "idle"
    /\ verdicts = <<>>
    /\ hooksRun = <<>>
    /\ walk = NoWalk
    /\ resolved = NoResolved
    /\ upOrder = <<>>
    /\ upPos = 0
    /\ upResult = Nil
    /\ upErr = NoErr
    /\ templateName = NoTemplate
    /\ containerConfig = Nil
    /\ started = {}
    /\ downOrder = <<>>
    /\ downPos = 0
    /\ downErr = NoErr
    /\ removed = <<>>

\* the orchestrator variables before Up or Down has been entered
OrchestratorIdle ==
    /\ projectName = ProjectName
    /\ OrchestratorFresh

InitBuild ==
    /\ stack = Nil
    /\ OrchestratorIdle
    /\ lxcfile \in Manifests
    /\ buildArgs = NoArgs
    /\ bpc = "cli"
    /\ containerID = 0
    /\ deferArmed = FALSE
    /\ shouldCleanup = FALSE
    /\ stepIdx = 0
    /\ executedSteps = <<>>
    /\ templatePath = 0
    /\ buildErr = NoErr
    /\ failedPhase = "none"
    /\ curService = ""
    /\ cmds = <<>>

NextBuild ==
    \/ RunBuild
    \/ Allocate
    \/ Create
    \/ Start
    \/ AwaitReady
    \/ RunSetupStep
    \/ ApplyConfig
    \/ RunCleanupStep
    \/ Stop
    \/ Export
    \/ Finalize

SpecBuild == InitBuild /\ [][NextBuild]_vars

\* ------------------------------------------------------------------------
\* The resolver on its own: one call on a stack, under any iteration order
\* of the services map
\* ------------------------------------------------------------------------
InitResolve ==
    /\ BuildIdle
    /\ OrchestratorIdle
    /\ stack \in StacksOf(TemplateKind, ServiceNames \cup {Ghost})

Resolve ==
    /\ opc = "idle"
    /\ resolved = NoResolved
    /\ \E iter \in Perms(DOMAIN stack.Services) :
        resolved' = GetServiceDependencyOrder(stack, iter)
    /\ UNCHANGED <<buildVars, curService, cmds, projectName, stack, verdicts, hooksRun, walk, upVars, downVars>>

NextResolve == Resolve

SpecResolve == InitResolve /\ [][NextResolve]_vars

\* ------------------------------------------------------------------------
\* The resolver step by step: one call on a stack, under any iteration
\* order of the services map
\* ------------------------------------------------------------------------
\* the call begins: the locals are empty, range picks an iteration order
WalkBegin ==
    /\ walk.pc = "idle"
    /\ stack # Nil
    /\ \E iter \in Perms(DOMAIN stack.Services) :
        walk' = Walk("loop", iter, 1, <<>>, <<>>, {}, {}, NoErr, "", <<>>)
    /\ UNCHANGED <<buildVars, curService, cmds, projectName, stack, verdicts, hooksRun,
                   resolved, upVars, downVars>>

\* one iteration of the loop over the services map, up to the first step of
\* visit; after the last one the order is returned
WalkOuter ==
    /\ walk.pc = "loop"
    /\ walk.frames = <<>>
    /\ walk' = IF walk.i > Len(walk.iter)
               THEN [walk EXCEPT !.pc = "done"]
               ELSE visitEnter([walk EXCEPT !.i = @ + 1], walk.iter[walk.i])
    /\ UNCHANGED <<buildVars, curService, cmds, projectName, stack, verdicts, hooksRun,
                   resolved, upVars, downVars>>

\* one iteration of the loop of the innermost visit over its dependencies,
\* up to the first step of the visit of the dependency; after the last one
\* the visit returns
WalkInner ==
    /\ walk.pc = "loop"
    /\ walk.frames # <<>>
    /\ LET top == Len(walk.frames)
           frame == walk.frames[top]
           deps == DependsOnOf(stack, frame.name)
       IN walk' = IF frame.k > Len(deps)
                  THEN visitReturn(walk, frame.name)
                  ELSE visitEnter([walk EXCEPT !.frames[top].k = @ + 1], deps[frame.k])
    /\ UNCHANGED <<buildVars, curService, cmds, projectName, stack, verdicts, hooksRun,
                   resolved, upVars, downVars>>

\* depends_on lists draw from two services, which can depend on themselves
\* and on each other, and from a name that is no service
InitWalk ==
    /\ BuildIdle
    /\ OrchestratorIdle
    /\ stack \in StacksOf(TemplateKind, {"db", "api", Ghost})

NextWalk ==
    \/ WalkBegin
    \/ WalkOuter
    \/ WalkInner

\* the call runs in one goroutine that nothing suspends
SpecWalk == InitWalk /\ [][NextWalk]_vars /\ WF_vars(NextWalk)

\* ------------------------------------------------------------------------
\* pxc up followed by pxc down on the same stack file
\* ------------------------------------------------------------------------
MaxBuilds == 1

BuildServices(s) == {n \in DOMAIN s.Services : HasBuild(s.Services[n])}

InitStack ==
    /\ BuildIdle
    /\ OrchestratorIdle
    /\ stack \in {s \in StacksOf(TemplateKind \cup BuildKind, ServiceNames) :
                    Cardinality(BuildServices(s)) <= MaxBuilds}

NextStack ==
    \/ UpBegin
    \/ EnsureTemplate
    \/ Allocate
    \/ Create
    \/ Start
    \/ AwaitReady
    \/ RunSetupStep
    \/ ApplyConfig
    \/ RunCleanupStep
    \/ Stop
    \/ Export
    \/ Finalize
    \/ BuildReturned
    \/ CreateContainer
    \/ StartContainer
    \/ UpExit
    \/ DownBegin
    \/ RemoveService

SpecStack == InitStack /\ [][NextStack]_vars

\* ------------------------------------------------------------------------
\* pxc up on a stack of one service that is built from any manifest
\* ------------------------------------------------------------------------
InitUpBuild ==
    /\ BuildIdle
    /\ OrchestratorIdle
    /\ stack = LXCStack("1.0", [n \in {"api"} |-> Service(BuildDir(AnyContext), NoTemplate, <<>>)])

NextUpBuild ==
    \/ UpBegin
    \/ EnsureTemplate
    \/ Allocate
    \/ Create
    \/ Start
    \/ AwaitReady
    \/ RunSetupStep
    \/ ApplyConfig
    \/ RunCleanupStep
    \/ Stop
    \/ Export
    \/ Finalize
    \/ BuildReturned
    \/ CreateContainer
    \/ StartContainer

SpecUpBuild == InitUpBuild /\ [][NextUpBuild]_vars

\* ------------------------------------------------------------------------
\* pxc up, then down, on stacks of template services with any dependencies
\* among them or on a name that is no service, and with lifecycle hooks
\* ------------------------------------------------------------------------
HooksCatalog ==
    {Nil,
     Hooks(<<>>, <<>>, <<>>, <<>>),
     Hooks(<<>>, <<"echo started">>, <<"echo stopping">>, <<>>),
     Hooks(<<"echo starting">>, <<"echo started">>, <<"echo stopping">>, <<"echo stopped">>)}

HookTargets == {"db", "api", Ghost}

HookStacks ==
    {[s EXCEPT !.Hooks = h] : s \in StacksOf(TemplateKind, HookTargets), h \in HooksCatalog}

InitHooks ==
    /\ BuildIdle
    /\ OrchestratorIdle
    /\ stack \in HookStacks

NextHooks ==
    \/ UpBegin
    \/ EnsureTemplate
    \/ CreateContainer
    \/ StartContainer
    \/ UpExit
    \/ DownBegin
    \/ RemoveService

SpecHooks == InitHooks /\ [][NextHooks]_vars

\* ------------------------------------------------------------------------
\* pxc up under any project name on stacks of template services, two of
\* whose names differ in their last three characters by 1, 1 and 8
\* ------------------------------------------------------------------------
ProjectNames == {"app", "shop"}
IDNames == {"db", "aaa", "bbi"}

IDStacks ==
    {LXCStack("1.0", [n \in names |-> Service(NoBuild, TemplateName("ubuntu:22.04"), <<>>)]) :
        names \in SUBSET IDNames}

InitIDs ==
    /\ BuildIdle
    /\ OrchestratorFresh
    /\ projectName \in ProjectNames
    /\ stack \in IDStacks

NextIDs ==
    \/ UpBegin
    \/ EnsureTemplate
    \/ CreateContainer
    \/ StartContainer
    \/ UpExit

SpecIDs == InitIDs /\ [][NextIDs]_vars

\* ------------------------------------------------------------------------
\* pxc up, then down, on a stack of one service with any resource limits of
\* its own and any default resources of the stack
\* ------------------------------------------------------------------------
OwnValues == {0, 2}
DefaultValues == {0, 1}

ServiceResources ==
    {Nil} \cup {Resources(c, m, w) : c \in OwnValues, m \in OwnValues, w \in OwnValues}

StackSettings ==
    {Nil, Settings(Nil)} \cup
    {Settings(Resources(c, m, w)) :
        c \in DefaultValues, m \in DefaultValues, w \in DefaultValues}

ConfigStacks ==
    {[LXCStack("1.0", [n \in {"api"} |->
                        [Service(k[1], k[2], <<>>) EXCEPT !.Resources = r]])
        EXCEPT !.Settings = st] :
        k \in TemplateKind \cup BuildKind, r \in ServiceResources, st \in StackSettings}

InitConfig ==
    /\ BuildIdle
    /\ OrchestratorIdle
    /\ stack \in ConfigStacks

SpecConfig == InitConfig /\ [][NextStack]_vars

\* ------------------------------------------------------------------------
\* pxc build on manifests of one setup step and at most one cleanup step,
\* the steps having any combination of Run, Copy and Env
\* ------------------------------------------------------------------------
AllSteps ==
    {SetupStep(run, copy, env, "") :
        run \in {NoCommand, <<"make">>},
        copy \in {Nil, CopyFull.Copy, CopyBare.Copy},
        env \in {Nil, EnvOnly.Env}}

StepManifests ==
    {LXCfile("ubuntu:22.04", <<st>>, cleanup, Nil, Nil) :
        st \in AllSteps, cleanup \in {<<>>} \cup {<<c>> : c \in AllSteps}}

InitStep ==
    /\ stack = Nil
    /\ OrchestratorIdle
    /\ lxcfile \in StepManifests
    /\ buildArgs = NoArgs
    /\ bpc = "cli"
    /\ containerID = 0
    /\ deferArmed = FALSE
    /\ shouldCleanup = FALSE
    /\ stepIdx = 0
    /\ executedSteps = <<>>
    /\ templatePath = 0
    /\ buildErr = NoErr
    /\ failedPhase = "none"
    /\ curService = ""
    /\ cmds = <<>>

SpecStep == InitStep /\ [][NextBuild]_vars

\* ------------------------------------------------------------------------
\* Builds started with --build-arg: one Run setup step whose command names
\* build arguments, and one cleanup step
\* ------------------------------------------------------------------------
\* the maps of --build-arg: none, one key, a key that begins another key,
\* and a value naming another key
ArgsCatalog ==
    {NoArgs,
     <<"A">> :> <<"x">>,
     (<<"A">> :> <<"x">>) @@ (<<"A", "B">> :> <<"y">>),
     (<<"A">> :> <<"$", "B">>) @@ (<<"B">> :> <<"z">>)}

ExpandManifests ==
    {LXCfile("ubuntu:22.04", <<SetupStep(c, Nil, Nil, "")>>, <<RunOnly>>, Nil, Nil) :
        c \in {<<"make">>,
               <<"echo", "$", "A">>,
               <<"echo", "$", "{", "A", "}">>,
               <<"echo", "$", "A", "B">>}}

InitExpand ==
    /\ stack = Nil
    /\ OrchestratorIdle
    /\ lxcfile \in ExpandManifests
    /\ buildArgs \in ArgsCatalog
    /\ bpc = "cli"
    /\ containerID = 0
    /\ deferArmed = FALSE
    /\ shouldCleanup = FALSE
    /\ stepIdx = 0
    /\ executedSteps = <<>>
    /\ templatePath = 0
    /\ buildErr = NoErr
    /\ failedPhase = "none"
    /\ curService = ""
    /\ cmds = <<>>

SpecExpand == InitExpand /\ [][NextBuild]_vars

\* ------------------------------------------------------------------------
\* Validate called repeatedly on one unchanged manifest, a stack or an LXCfile
\* ------------------------------------------------------------------------
MaxValidations == 2

ValidateTargets == {"db", "api"}

InitValidate ==
    /\ OrchestratorIdle
    /\ \/ BuildIdle /\ stack \in StacksOf(AllKinds, ValidateTargets)
       \/ /\ stack = Nil
          /\ lxcfile \in Manifests
          /\ buildArgs = NoArgs
          /\ bpc = "idle"
          /\ containerID = 0
          /\ deferArmed = FALSE
          /\ shouldCleanup = FALSE
          /\ stepIdx = 0
          /\ executedSteps = <<>>
          /\ templatePath = 0
          /\ buildErr = NoErr
          /\ failedPhase = "none"
          /\ curService = ""
          /\ cmds = <<>>

\* LXCStack.Validate, under any iteration order of the services map
ValidateStack ==
    /\ stack # Nil
    /\ Len(verdicts) < MaxValidations
    /\ \E iter \in Perms(DOMAIN stack.Services) :
        verdicts' = Append(verdicts, StackValidate(stack, iter))
    /\ UNCHANGED <<buildVars, curService, cmds, projectName, hooksRun, walk, stack, resolved, upVars,
                   downVars>>

\* LXCfile.Validate
ValidateLXCfile ==
    /\ lxcfile # Nil
    /\ Len(verdicts) < MaxValidations
    /\ verdicts' = Append(verdicts, LXCfileValidate(lxcfile))
    /\ UNCHANGED <<buildVars, curService, cmds, projectName, hooksRun, walk, stack, resolved, upVars,
                   downVars>>

NextValidate ==
    \/ ValidateStack
    \/ ValidateLXCfile

SpecValidate == InitValidate /\ [][NextValidate]_vars

\* ------------------------------------------------------------------------
\* Properties of the build pipeline
\* ------------------------------------------------------------------------
CmdIdx == DOMAIN cmds

Issued(op, id) == \E k \in CmdIdx : cmds[k].op = op /\ cmds[k].id = id

ExportSucceeded == \E k \in CmdIdx : cmds[k].op = "template" /\ cmds[k].ok

\* the last two commands are Finalize's stop and destroy of the ephemeral container
CleanupIssuedLast ==
    /\ Len(cmds) >= 2
    /\ cmds[Len(cmds) - 1].op = "stop"
    /\ cmds[Len(cmds) - 1].id = containerID
    /\ cmds[Len(cmds) - 1].by = Label("Finalize", 0)
    /\ cmds[Len(cmds)].op = "destroy"
    /\ cmds[Len(cmds)].id = containerID
    /\ cmds[Len(cmds)].by = Label("Finalize", 0)

C2_SetupFailureShortCircuits ==
    failedPhase = "setup" =>
        /\ bpc \in {"deferred", "returned"}
        /\ buildErr # NoErr
        /\ stepIdx \in 1..Len(lxcfile.Setup)
        /\ executedSteps = [j \in 1..(stepIdx - 1) |-> Label("Step", j)]
        /\ \A k \in CmdIdx :
            /\ cmds[k].by[1] \in {"Create", "Start", "AwaitReady", "Step", "Finalize"}
            /\ cmds[k].by[1] = "Step" => cmds[k].by[2] <= stepIdx
            /\ cmds[k].op \notin {"set", "template"}
        /\ bpc = "returned" => CleanupIssuedLast

C2_Witness ==
    /\ failedPhase = "setup"
    /\ bpc = "returned"
    /\ stepIdx = 1
    /\ Len(lxcfile.Setup) = 2
    /\ Issued("destroy", containerID)

PhasesAfterCreate == {"start", "wait", "setup", "config", "stop"}

Defined(s) == DOMAIN s.Services

DependsDirectly(s, a, b) ==
    a \in Defined(s) /\ \E k \in DOMAIN s.Services[a].DependsOn : s.Services[a].DependsOn[k] = b

\* names reachable from a over one or more dependsOn edges
RECURSIVE ReachFrom(_, _, _)
ReachFrom(s, frontier, seen) ==
    LET next == {b \in Defined(s) \cup {Ghost} : \E a \in frontier : DependsDirectly(s, a, b)}
    IN IF next \subseteq seen THEN seen
       ELSE ReachFrom(s, next \ seen, seen \cup next)

Reaches(s, a) == ReachFrom(s, {a}, {})

HasCycle(s) == \E a \in Defined(s) : a \in Reaches(s, a)

AllDepsDefined(s) ==
    \A a \in Defined(s) : \A k \in DOMAIN s.Services[a].DependsOn :
        s.Services[a].DependsOn[k] \in Defined(s)

IndexOf(q, x) == CHOOSE k \in DOMAIN q : q[k] = x

IsDependencyOrder(s, q) ==
    /\ Len(q) = Cardinality(Defined(s))
    /\ \A a \in Defined(s) : \E k \in DOMAIN q : q[k] = a
    /\ NoRepeat(q)
    /\ \A a, b \in Defined(s) :
        DependsDirectly(s, a, b) => IndexOf(q, b) < IndexOf(q, a)

\* C5: on an acyclic graph whose dependencies are all defined services the
\* resolver returns, without error, an order that holds every service name
\* exactly once and every dependency before its dependents.
C5_ResolverOrder ==
    (resolved # NoResolved /\ ~HasCycle(stack) /\ AllDepsDefined(stack)) =>
        /\ resolved.err = NoErr
        /\ IsDependencyOrder(stack, resolved.order)

C5_Witness ==
    /\ resolved # NoResolved
    /\ DOMAIN stack.Services = ServiceNames
    /\ stack.Services["web"].DependsOn = <<"api", "db">>
    /\ stack.Services["api"].DependsOn = <<"db">>
    /\ resolved.order = <<"db", "api", "web">>

\* C6: on a graph that contains a cycle (a self-dependency included) the
\* resolver returns a cycle error and no order, never a partial one.
C6_CycleIsError ==
    (resolved # NoResolved /\ HasCycle(stack)) =>
        /\ resolved.err = CycleErr
        /\ resolved.order = <<>>

C6_Witness ==
    /\ resolved # NoResolved
    /\ DOMAIN stack.Services = ServiceNames
    /\ stack.Services["db"].DependsOn = <<>>
    /\ stack.Services["api"].DependsOn = <<"db">>
    /\ stack.Services["web"].DependsOn = <<"api", "web">>
    /\ resolved.err = CycleErr
    /\ resolved.at = "web"

\* ------------------------------------------------------------------------
\* Properties of up and down
\* ------------------------------------------------------------------------
DeployFailed == "failed to deploy service"

\* the service outcomes of the result that up returns
Outcomes == upResult.Services

Reverse(q) == [k \in 1..Len(q) |-> q[Len(q) + 1 - k]]

\* C4: during up, every create, clone or start command issued for a service
\* (those of its template build included) finds each service named in its
\* dependsOn already started: the pct start of the dependency's container
\* exited with 0 in the same run before the deployment of the service began.
\* (cmds holds the commands of the service being deployed, and started gains
\* that service only with its own pct start.)
C4_DependenciesStartedFirst ==
    \A i \in DOMAIN cmds :
        (cmds[i].svc # "" /\ cmds[i].op \in {"create", "clone", "start"}) =>
            /\ cmds[i].svc = curService
            /\ \A k \in DOMAIN stack.Services[curService].DependsOn :
                    /\ stack.Services[curService].DependsOn[k] \in started
                    /\ stack.Services[curService].DependsOn[k] # curService

C4_Witness ==
    /\ opc = "upReturned"
    /\ upErr = NoErr
    /\ Len(stack.Services[curService].DependsOn) = 2
    /\ HasBuild(stack.Services[curService])
    /\ \E i \in DOMAIN cmds : cmds[i].op = "clone" /\ cmds[i].ok
    /\ started = ServiceNames

\* C7: when a service fails to build, create or start, up returns an error
\* and a result whose outcomes are, in the order of deployment, a successful
\* one for every earlier service and a failed one for the failing service,
\* and nothing for the services after it.
C7_PartialResultOnFailure ==
    /\ (\E i \in DOMAIN cmds : cmds[i].by = Label("Deploy", 0) /\ ~cmds[i].ok) =>
            (opc = "upReturned" /\ upErr = DeployFailed)
    /\ (opc = "upReturned" /\ buildErr # NoErr) => upErr = DeployFailed
    /\ (opc = "upReturned" /\ upErr = DeployFailed) =>
            /\ upResult # Nil
            /\ Len(Outcomes) \in 1..Len(upOrder)
            /\ \A k \in 1..Len(Outcomes) : Outcomes[k].Name = upOrder[k]
            /\ \A k \in 1..(Len(Outcomes) - 1) :
                    Outcomes[k].Error = NoErr /\ Outcomes[k].Status = "running"
            /\ Outcomes[Len(Outcomes)].Error # NoErr
            /\ Outcomes[Len(Outcomes)].Status # "running"

C7_Witness ==
    /\ opc = "upReturned"
    /\ upErr = DeployFailed
    /\ Len(upOrder) = 3
    /\ Len(Outcomes) = 2
    /\ Outcomes[2].Error = "failed to start container"

\* the services that stand after position n of up's order
LaterServices(n) == {upOrder[k] : k \in (n + 1)..Len(upOrder)}

\* C8: once a service has failed, up has returned, and no command of the
\* run, of a build or of a deployment, belongs to a service that stands
\* after the failing one in the order.
C8_NothingAfterFirstFailure ==
    (upErr = DeployFailed /\ upResult # Nil) =>
        /\ opc = "upReturned"
        /\ \A i \in DOMAIN cmds : cmds[i].svc \notin LaterServices(Len(Outcomes))
        /\ \A k \in DOMAIN Outcomes : Outcomes[k].Name \notin LaterServices(Len(Outcomes))

C8_Witness ==
    /\ opc = "upReturned"
    /\ upErr = DeployFailed
    /\ Len(upOrder) = 3
    /\ Len(Outcomes) = 1
    /\ Outcomes[1].Error = "failed to build template"
    /\ failedPhase = "export"
    /\ cmds # <<>>

DownDone == opc = "downReturned" /\ downErr = NoErr

IssuedFor(op, svc) ==
    \E i \in DOMAIN cmds : cmds[i].op = op /\ cmds[i].id = generateContainerID(svc)

\* C9: when down has returned without error, a stop and a destroy have been
\* issued for the container of every service of the stack.
C9_DownStopsAndRemoves ==
    DownDone =>
        \A n \in DOMAIN stack.Services : IssuedFor("stop", n) /\ IssuedFor("destroy", n)

UpDeployed == upOrder # <<>>

\* C10 as stated: down processes the services in the order of up, reversed.
C10_Original ==
    (DownDone /\ UpDeployed) => removed = Reverse(upOrder)

\* every two services of the stack are ordered by the dependencies
TotallyOrdered(s) ==
    \A a, b \in Defined(s) : a # b => (b \in Reaches(s, a) \/ a \in Reaches(s, b))

\* C10: down processes the services in the order its own call of the
\* resolver returned, reversed element for element; that sequence holds the
\* services of up's order, every service before the services it depends
\* on, and it is up's order reversed when the dependencies order every two
\* services of the stack.
C10_DownReversesItsOwnOrder ==
    DownDone =>
        /\ removed = Reverse(resolved.order)
        /\ UpDeployed =>
            /\ {removed[k] : k \in DOMAIN removed} = {upOrder[k] : k \in DOMAIN upOrder}
            /\ IsDependencyOrder(stack, Reverse(removed))
            /\ TotallyOrdered(stack) => removed = Reverse(upOrder)

C10_Witness ==
    /\ DownDone
    /\ upErr = NoErr
    /\ Len(upOrder) = 3
    /\ stack.Services[upOrder[3]].DependsOn = <<upOrder[1]>>
    /\ removed # Reverse(upOrder)

\* a is handed to removeService before b is
RemovedBefore(a, b) ==
    \E i, j \in DOMAIN removed : i < j /\ removed[i] = a /\ removed[j] = b

\* C11: when down has gone through its removal loop, every service was
\* processed before each service named in its dependsOn.
C11_DependentsFirst ==
    DownDone =>
        \A a \in Defined(stack) : \A k \in DOMAIN stack.Services[a].DependsOn :
            RemovedBefore(a, stack.Services[a].DependsOn[k])

C11_Witness ==
    /\ DownDone
    /\ upErr = NoErr
    /\ Defined(stack) = ServiceNames
    /\ stack.Services["web"].DependsOn = <<"api", "db">>
    /\ stack.Services["api"].DependsOn = <<"db">>
    /\ removed = <<"web", "api", "db">>

\* ------------------------------------------------------------------------
\* More properties of the build pipeline
\* ------------------------------------------------------------------------
Executed(label) == \E k \in DOMAIN executedSteps : executedSteps[k] = label

PhasesBeforeCleanup == {"validate", "create", "start", "wait", "setup", "config"}

\* the cleanup loop has gone past its step k
PastCleanupStep(k) ==
    \/ bpc = "cleanup" /\ stepIdx > k
    \/ bpc \in {"stop", "export"}
    \/ bpc \in {"deferred", "returned"} /\ failedPhase \notin PhasesBeforeCleanup

CleanupStepFailed(k) ==
    /\ lxcfile # Nil
    /\ k \in 1..Len(lxcfile.Cleanup)
    /\ PastCleanupStep(k)
    /\ ~Executed(Label("Cleanup", k))

\* both look from the end of the log, where the late phases are
IssuedBy(op, phase) ==
    \E d \in 0..(Len(cmds) - 1) :
        cmds[Len(cmds) - d].by[1] = phase /\ cmds[Len(cmds) - d].op = op

SucceededBy(op, phase) ==
    \E d \in 0..(Len(cmds) - 1) :
        /\ cmds[Len(cmds) - d].by[1] = phase
        /\ cmds[Len(cmds) - d].op = op
        /\ cmds[Len(cmds) - d].ok

\* the commands that a step appends to the log
Appended == SubSeq(cmds', Len(cmds) + 1, Len(cmds'))

\* the cleanup loop is over and one of its steps has failed
CleanupFailedBefore ==
    /\ lxcfile # Nil
    /\ \E k \in 1..Len(lxcfile.Cleanup) : CleanupStepFailed(k)

\* C12: a cleanup step, failing or not, leaves the build without an error
\* and on its way to Stop; after a cleanup step has failed Stop issues its
\* stop and, when it succeeds, hands over to Export, Export issues its
\* template command and, when it succeeds, the build returns the template
\* without an error and Finalize destroys nothing.
C12_CleanupFailureIsNotFatal ==
    [][/\ bpc = "cleanup" =>
            /\ bpc' \in {"cleanup", "stop"}
            /\ failedPhase' = "none"
            /\ buildErr' = NoErr
       /\ (bpc = "stop" /\ CleanupFailedBefore) =>
            /\ Len(Appended) = 1
            /\ Appended[1].op = "stop"
            /\ Appended[1].id = containerID
            /\ Appended[1].ok => (bpc' = "export" /\ buildErr' = NoErr)
       /\ (bpc = "export" /\ CleanupFailedBefore) =>
            /\ Len(Appended) = 1
            /\ Appended[1].op = "template"
            /\ Appended[1].id = containerID
            /\ Appended[1].ok =>
                    /\ buildErr' = NoErr
                    /\ failedPhase' = "none"
                    /\ templatePath' = containerID
       /\ (bpc = "deferred" /\ failedPhase = "none" /\ CleanupFailedBefore) =>
            /\ Appended = <<>>
            /\ bpc' = "returned"
            /\ buildErr' = NoErr
            /\ templatePath' = containerID]_vars

C12_Witness ==
    /\ bpc = "returned"
    /\ CleanupStepFailed(1)
    /\ \E i \in CmdIdx : cmds[i].by = Label("Cleanup", 1) /\ ~cmds[i].ok
    /\ SucceededBy("template", "Export")
    /\ buildErr = NoErr

AllSetupExecuted ==
    \A k \in 1..Len(lxcfile.Setup) : Executed(Label("Step", k))

\* the commands issued after the first command of the phase
DestroyedAfter(phase) ==
    \E d \in 0..(Len(cmds) - 1) :
        /\ cmds[Len(cmds) - d].op = "destroy"
        /\ cmds[Len(cmds) - d].id = containerID
        /\ cmds[Len(cmds) - d].by[1] = "Finalize"
        /\ \E e \in (d + 1)..(Len(cmds) - 1) : cmds[Len(cmds) - e].by[1] = phase

\* C13: a build whose stop or export failed, every setup step having
\* succeeded, returns an error and no template, and has issued the destroy
\* of its container after the failing command.
C13_LateFailureDestroys ==
    (bpc = "returned" /\ failedPhase \in {"stop", "export"}) =>
        /\ AllSetupExecuted
        /\ buildErr # NoErr
        /\ templatePath = 0
        /\ ~SucceededBy("template", "Export")
        /\ DestroyedAfter(IF failedPhase = "stop" THEN "Stop" ELSE "Export")

C13_Witness ==
    /\ bpc = "returned"
    /\ failedPhase = "export"
    /\ Len(lxcfile.Setup) = 2
    /\ AllSetupExecuted
    /\ IssuedBy("template", "Export")
    /\ cmds[Len(cmds)].op = "destroy"
    /\ cmds[Len(cmds)].ok

\* C15: a build whose manifest passed validation never ends in its setup
\* steps with the error of a step that has no action.
C15_NoActionIsValidationError ==
    (lxcfile # Nil /\ LXCfileValidate(lxcfile) = NoErr) =>
        buildErr # Wrap("failed to execute step", NoActions)

\* C14: while a build runs on a manifest that validation rejects, whether
\* started from the command line or by up for a service, no external
\* command has been issued.
C14_InvalidManifestNoCommands ==
    (lxcfile # Nil /\ LXCfileValidate(lxcfile) # NoErr) => cmds = <<>>

\* up has been entered and down has not
InUp == opc \notin {"idle", "remove", "downReturned"}

\* C16: once up has been entered on a stack with a dependsOn entry that
\* names an undefined service, up has returned the validation error and the
\* resolver has not been invoked (no resolver result exists).
C16_DanglingRejectedBeforeResolve ==
    (InUp /\ ~AllDepsDefined(stack)) =>
        /\ opc \in {"upReturned", "upExited"}
        /\ upErr = "invalid stack configuration"
        /\ resolved = NoResolved

C16_Witness ==
    /\ opc = "upReturned"
    /\ ~AllDepsDefined(stack)
    /\ upErr = "invalid stack configuration"
    /\ resolved = NoResolved

\* the stack fails validation for some iteration order of its services
FailsValidation(s) == \E iter \in Perms(DOMAIN s.Services) : StackValidate(s, iter) # NoErr

\* C17: once up has been entered on a stack that fails validation or has a
\* dependency cycle, up has returned an error, and no external container
\* command has been issued and no service has an outcome.
C17_BadStackNoCommands ==
    (InUp /\ (FailsValidation(stack) \/ HasCycle(stack))) =>
        /\ opc \in {"upReturned", "upExited"}
        /\ upErr \in {"invalid stack configuration", "failed to resolve service dependencies"}
        /\ cmds = <<>>
        /\ started = {}
        /\ (upResult # Nil => Outcomes = <<>>)

\* up returned the resolver's error on a valid stack with a cycle
C17_Witness ==
    /\ opc = "upReturned"
    /\ ~FailsValidation(stack)
    /\ HasCycle(stack)
    /\ upErr = "failed to resolve service dependencies"
    /\ cmds = <<>>

\* C18: a step of AwaitReady issues between one and MaxProbes commands, all
\* of them probes and all but the last one failing; the build goes on when
\* the last probe succeeds, and it fails as not ready exactly when MaxProbes
\* probes were issued and the last one failed too.
C18_BoundedProbing ==
    [][bpc = "wait" =>
        /\ Len(Appended) \in 1..MaxProbes
        /\ \A i \in DOMAIN Appended :
            /\ Appended[i].op = "exec"
            /\ Appended[i].by[1] = "AwaitReady"
            /\ i < Len(Appended) => ~Appended[i].ok
        /\ Appended[Len(Appended)].ok => (failedPhase' = "none" /\ bpc' = AfterWait)
        /\ ~Appended[Len(Appended)].ok =>
            /\ Len(Appended) = MaxProbes
            /\ failedPhase' = "wait"
            /\ buildErr' = "container failed to become ready"
            /\ bpc' = "deferred"]_vars

\* the readiness probes in the command log
ProbeIdx == {i \in CmdIdx : cmds[i].by[1] = "AwaitReady"}

\* all MaxProbes probes failed and the build ended as not ready
C18_Witness ==
    /\ bpc = "returned"
    /\ failedPhase = "wait"
    /\ Cardinality(ProbeIdx) = MaxProbes
    /\ \A i \in ProbeIdx : ~cmds[i].ok
    /\ buildErr # NoErr

\* a step of Finalize in which the stop or the destroy of the cleanup fails
FinalizeCleanupFailed ==
    /\ bpc = "deferred"
    /\ bpc' = "returned"
    /\ \E i \in DOMAIN Appended : ~Appended[i].ok

\* C19: when the stop or the destroy of Finalize's cleanup fails, a phase
\* has failed before and the build returns the error of that phase, unchanged.
C19_CleanupFailureKeepsPhaseError ==
    [][FinalizeCleanupFailed =>
        /\ failedPhase # "none"
        /\ buildErr # NoErr
        /\ buildErr' = buildErr
        /\ failedPhase' = failedPhase]_vars

\* a setup step failed, and then both the stop and the destroy of the cleanup
C19_Witness ==
    /\ bpc = "returned"
    /\ failedPhase = "setup"
    /\ buildErr = Wrap("failed to execute step", "exit status")
    /\ \E i \in CmdIdx : cmds[i].op = "stop" /\ cmds[i].by = Label("Finalize", 0) /\ ~cmds[i].ok
    /\ \E i \in CmdIdx : cmds[i].op = "destroy" /\ cmds[i].by = Label("Finalize", 0) /\ ~cmds[i].ok

\* the container ids of the services that up has started in this run
StartedIDs == {generateContainerID(s) : s \in started}

\* C20: no stop or destroy is ever issued for the container of a service
\* that up has started, in particular not when up aborts on a later service.
C20_NoRollbackOfStarted ==
    \A i \in CmdIdx : cmds[i].op \in {"stop", "destroy"} => cmds[i].id \notin StartedIDs

\* up aborted on a service whose container could not be created, after it
\* had started another service
C20_Witness ==
    /\ opc = "upReturned"
    /\ upErr = DeployFailed
    /\ started # {}
    /\ curService \notin started
    /\ \E i \in CmdIdx : cmds[i].by = Label("Deploy", 0) /\ ~cmds[i].ok

\* the build has returned its result without an error
BuildSucceeded ==
    /\ bpc = "returned"
    /\ lxcfile # Nil
    /\ failedPhase = "none"
    /\ buildErr = NoErr

\* the log holds a successful command op of the step with this label
StepCmdOk(label, op) ==
    \E d \in 0..(Len(cmds) - 1) :
        /\ cmds[Len(cmds) - d].by = label
        /\ cmds[Len(cmds) - d].op = op
        /\ cmds[Len(cmds) - d].ok

\* cleanup step k has succeeded, as the log shows it: the command of a Run
\* step, the transfer of a Copy step, every assignment of an Env step
CleanupSucceeded(k) ==
    LET step == lxcfile.Cleanup[k] IN
    IF step.Run # NoCommand THEN StepCmdOk(Label("Cleanup", k), "exec")
    ELSE IF step.Copy # Nil THEN StepCmdOk(Label("Cleanup", k), "push")
    ELSE /\ step.Env # Nil
         /\ \A i \in CmdIdx : cmds[i].by = Label("Cleanup", k) => cmds[i].ok

SetupLabels == [k \in 1..Len(lxcfile.Setup) |-> Label("Step", k)]

CleanupLabels ==
    LET kept == SelectSeq([k \in 1..Len(lxcfile.Cleanup) |-> k], CleanupSucceeded)
    IN [i \in 1..Len(kept) |-> Label("Cleanup", kept[i])]

\* C22: the executed steps of a successful build are the labels of all setup
\* steps in manifest order, followed by the labels of the cleanup steps that
\* succeeded, in manifest order; one Run step and no cleanup give one label.
C22_ExecutedStepLabels ==
    BuildSucceeded =>
        /\ executedSteps = SetupLabels \o CleanupLabels
        /\ (lxcfile.Setup = <<RunOnly>> /\ lxcfile.Cleanup = <<>>) => Len(executedSteps) = 1

\* a successful build of two setup steps whose only cleanup step failed
C22_Witness ==
    /\ BuildSucceeded
    /\ Len(lxcfile.Setup) = 2
    /\ Len(lxcfile.Cleanup) = 1
    /\ ~CleanupSucceeded(1)
    /\ executedSteps = <<Label("Step", 1), Label("Step", 2)>>

\* exactly one of build and template is set
ExactlyOneSource(service) == HasBuild(service) # (service.Template # NoTemplate)

\* C23: whenever Validate accepts a stack, each of its services has exactly
\* one of build and template set; a stack with a service that has both, or
\* neither, is rejected.
C23_ExactlyOneOfBuildAndTemplate ==
    \A i \in DOMAIN verdicts :
        (stack # Nil /\ verdicts[i] = NoErr) =>
            \A n \in DOMAIN stack.Services : ExactlyOneSource(stack.Services[n])

\* a stack of one service with both build and template, rejected for it
C23_Witness ==
    /\ stack # Nil
    /\ DOMAIN stack.Services = {"api"}
    /\ HasBuild(stack.Services["api"])
    /\ stack.Services["api"].Template # NoTemplate
    /\ verdicts = <<"cannot specify both 'build' and 'template'">>

\* C24: any two validations of the same manifest, stack or LXCfile, agree
\* on the verdict, whatever order the services map is iterated in.
C24_SameVerdictTwice ==
    \A i, j \in DOMAIN verdicts : (verdicts[i] = NoErr) <=> (verdicts[j] = NoErr)

\* a stack validated twice and rejected twice, for two different services
C24_Witness ==
    /\ stack # Nil
    /\ Len(verdicts) = 2
    /\ verdicts[1] # NoErr
    /\ verdicts[2] # NoErr
    /\ verdicts[1] # verdicts[2]

\* the place of each phase in the pipeline, and the commands it may issue
PhaseRank ==
    [Create |-> 1, Start |-> 2, AwaitReady |-> 3, Step |-> 4, ApplyConfig |-> 5,
     Cleanup |-> 6, Stop |-> 7, Export |-> 8, Finalize |-> 9]

StepOps == {"exec", "mkdir", "push", "chown", "chmod", "env"}

PhaseOps ==
    [Create |-> {"create"}, Start |-> {"start"}, AwaitReady |-> {"exec"}, Step |-> StepOps,
     ApplyConfig |-> {"set"}, Cleanup |-> StepOps, Stop |-> {"stop"}, Export |-> {"template"},
     Finalize |-> {"stop", "destroy"}]

\* phase first, then the index of the probe or step within the phase
CmdKey(c) == PhaseRank[c.by[1]] * (MaxProbes + 1) + c.by[2]

\* command b may directly follow command a
MayFollow(a, b) ==
    \/ CmdKey(a) < CmdKey(b)
    \/ CmdKey(a) = CmdKey(b) /\ a.by[1] \in {"Step", "Cleanup", "Finalize"}

\* the last command of the log, if any, and the commands a step appends
LastAndAppended == (IF cmds = <<>> THEN <<>> ELSE <<cmds[Len(cmds)]>>) \o Appended

\* C25: every command a build issues belongs to a phase of the pipeline and
\* follows the command before it in the order create, start, probes, setup
\* steps by index, configuration, cleanup steps by index, stop, export (and
\* Finalize's stop and destroy after a failure); the first command is the
\* create, nothing after the setup steps is issued before all of them have
\* run, and the export directly follows the successful stop.
C25_PhasesInOrder ==
    [][LET seq == LastAndAppended IN
       /\ \A i \in DOMAIN Appended :
            /\ Appended[i].by[1] \in DOMAIN PhaseRank
            /\ Appended[i].op \in PhaseOps[Appended[i].by[1]]
            /\ Appended[i].by[1] \in {"ApplyConfig", "Cleanup", "Stop", "Export"} =>
                    AllSetupExecuted
       /\ \A i \in 1..(Len(seq) - 1) : MayFollow(seq[i], seq[i + 1])
       /\ (cmds = <<>> /\ Appended # <<>>) => Appended[1].op = "create"
       /\ (Appended # <<>> /\ Appended[1].op = "template") =>
            /\ cmds # <<>>
            /\ cmds[Len(cmds)].op = "stop"
            /\ cmds[Len(cmds)].by[1] = "Stop"
            /\ cmds[Len(cmds)].ok]_vars

\* a successful build that went through every phase
C25_Witness ==
    /\ BuildSucceeded
    /\ Len(lxcfile.Setup) = 2
    /\ Len(lxcfile.Cleanup) = 1
    /\ \A ph \in {"Create", "Start", "AwaitReady", "Step", "ApplyConfig", "Cleanup", "Stop", "Export"} :
            \E i \in CmdIdx : cmds[i].by[1] = ph
    /\ cmds[Len(cmds)].op = "template"

\* C26: a stop or destroy is issued only for the identifier the build
\* allocated, which lies in the builder's range, and only after the build's
\* own create of that identifier has succeeded; after a failed create the
\* build issues nothing more.
C26_DestroysOnlyItsOwnContainer ==
    [][/\ \A i \in DOMAIN Appended :
            Appended[i].op \in {"stop", "destroy"} =>
                /\ Appended[i].id = containerID
                /\ containerID \in BuildIDBase..(BuildIDBase + BuildIDRange - 1)
                /\ failedPhase # "create"
                /\ cmds # <<>>
                /\ cmds[1].op = "create"
                /\ cmds[1].id = containerID
                /\ cmds[1].ok
       /\ failedPhase = "create" => Appended = <<>>]_vars

\* after a failed start the build has destroyed the container it created
C26_Witness ==
    /\ bpc = "returned"
    /\ failedPhase = "start"
    /\ cmds[1].op = "create"
    /\ cmds[1].ok
    /\ cmds[Len(cmds)].op = "destroy"
    /\ cmds[Len(cmds)].id = cmds[1].id

\* C27: when Finalize cleans up after a failed build, its stop is directly
\* followed by the destroy of the same container, whether the stop succeeded
\* or failed.
C27_DestroyAfterFailedStop ==
    [][/\ (bpc = "deferred" /\ failedPhase \notin {"none", "validate", "create"}) =>
            /\ Len(Appended) = 2
            /\ Appended[1].op = "stop"
            /\ Appended[1].by[1] = "Finalize"
       /\ \A i \in DOMAIN Appended :
            (Appended[i].op = "stop" /\ Appended[i].by[1] = "Finalize") =>
                /\ i + 1 \in DOMAIN Appended
                /\ Appended[i + 1].op = "destroy"
                /\ Appended[i + 1].id = Appended[i].id
                /\ Appended[i + 1].id = containerID]_vars

\* Finalize's stop failed and its destroy was issued, and succeeded
C27_Witness ==
    /\ bpc = "returned"
    /\ failedPhase = "wait"
    /\ Len(cmds) >= 2
    /\ cmds[Len(cmds) - 1].op = "stop"
    /\ cmds[Len(cmds) - 1].by[1] = "Finalize"
    /\ ~cmds[Len(cmds) - 1].ok
    /\ cmds[Len(cmds)].op = "destroy"
    /\ cmds[Len(cmds)].ok

\* the step that a step of the setup or cleanup loop executes
InStepLoop == bpc \in {"setup", "cleanup"}

CurrentStep == IF bpc = "setup" THEN lxcfile.Setup[stepIdx] ELSE lxcfile.Cleanup[stepIdx]

CopyOps == {"mkdir", "push", "chown", "chmod"}

\* C28: a step executes the commands of one action only: the single command
\* of Run if Run is set, else those of Copy if Copy is set, else those of
\* Env; no command of another populated action of the step is issued.
C28_OneActionPerStep ==
    [][InStepLoop =>
        LET step == CurrentStep IN
        /\ step.Run # NoCommand =>
                (Len(Appended) = 1 /\ Appended[1].op = "exec")
        /\ (step.Run = NoCommand /\ step.Copy # Nil) =>
                \A i \in DOMAIN Appended : Appended[i].op \in CopyOps
        /\ (step.Run = NoCommand /\ step.Copy = Nil /\ step.Env # Nil) =>
                \A i \in DOMAIN Appended : Appended[i].op = "env"
        /\ (step.Run = NoCommand /\ step.Copy = Nil /\ step.Env = Nil) => Appended = <<>>]_vars

\* a step with Run, Copy and Env has run its command and the build went on
C28_Witness ==
    /\ lxcfile # Nil
    /\ Len(lxcfile.Setup) = 1
    /\ lxcfile.Setup[1].Run # NoCommand
    /\ lxcfile.Setup[1].Copy # Nil
    /\ lxcfile.Setup[1].Env # Nil
    /\ executedSteps = <<Label("Step", 1)>>
    /\ \A i \in CmdIdx : cmds[i].op \notin CopyOps \cup {"env"}

\* the step about to be executed is a Copy step
AtCopyStep == InStepLoop /\ CurrentStep.Run = NoCommand /\ CurrentStep.Copy # Nil

\* the step now being executed does not add its label to ExecutedSteps
StepFails == executedSteps' = executedSteps

CopyCmdFailed(op) ==
    /\ Appended # <<>>
    /\ Appended[Len(Appended)].op = op
    /\ ~Appended[Len(Appended)].ok

MissingSource == Wrap("failed to execute step", "source file/directory does not exist")

\* C29: a Copy step fails exactly when its source is missing on the host (it
\* then issues no command at all), when the mkdir of the destination
\* directory fails, or when the push fails, the failed command being the
\* last one issued; a failed chown or chmod never fails the step, and a setup
\* step's error names the one of the three causes that occurred.
C29_CopyStepFailure ==
    [][AtCopyStep =>
        /\ StepFails <=>
                (Appended = <<>> \/ CopyCmdFailed("mkdir") \/ CopyCmdFailed("push"))
        /\ \A i \in DOMAIN Appended :
                (Appended[i].op \in {"mkdir", "push"} /\ ~Appended[i].ok) => StepFails
        /\ bpc = "setup" =>
                /\ buildErr' = MissingSource <=> Appended = <<>>
                /\ buildErr' = Wrap("failed to execute step",
                                    "failed to create destination directory")
                       <=> CopyCmdFailed("mkdir")
                /\ buildErr' = Wrap("failed to execute step", "failed to copy files")
                       <=> CopyCmdFailed("push")
                /\ buildErr' = NoErr <=> ~StepFails]_vars

\* a Copy step whose chown and chmod both failed is among the executed steps
C29_Witness ==
    /\ executedSteps = <<Label("Step", 1)>>
    /\ lxcfile.Setup[1].Run = NoCommand
    /\ \E i \in CmdIdx : cmds[i].op = "chown" /\ ~cmds[i].ok
    /\ \E i \in CmdIdx : cmds[i].op = "chmod" /\ ~cmds[i].ok

\* the first non-zero value of a field among the service's own resources and
\* the stack's default resources, 0 when there is none
FirstNonZero(service, s, field) ==
    IF service.Resources # Nil /\ service.Resources[field] # 0
    THEN service.Resources[field]
    ELSE IF s.Settings # Nil /\ s.Settings.DefaultResources # Nil
    THEN s.Settings.DefaultResources[field]
    ELSE 0

\* C30: each of cores, memory and swap of the configuration built for a
\* service is the service's own value if that is non-zero, otherwise the
\* stack's default if that is non-zero, otherwise zero.
C30_FirstNonZeroWins ==
    containerConfig # Nil =>
        \A field \in {"Cores", "Memory", "Swap"} :
            containerConfig[field] = FirstNonZero(stack.Services[curService], stack, field)

\* b to the power e, modulo the hash modulus
RECURSIVE Power(_, _)
Power(b, e) == IF e = 0 THEN 1 ELSE (b * Power(b, e - 1)) % HashModulus

\* the sum of chars[k] * 31^(n - k) over the positions k of chars
RECURSIVE PolySum(_, _)
PolySum(chars, k) ==
    IF k > Len(chars) THEN 0
    ELSE chars[k] * Power(HashFactor, Len(chars) - k) + PolySum(chars, k + 1)

\* the polynomial hash of project name followed by service name, a function
\* of the two names and of nothing else
NameHash(project, service) ==
    PolySum(Chars[project] \o Chars[service], 1) % HashModulus

\* C31: the identifier under which a service's container is created and
\* started, and which its outcome records, is base 200 plus the polynomial
\* hash of project name and service name, whatever else the run has done, and
\* lies in 200..1199.
C31_IdentifierOfNames ==
    /\ \A i \in CmdIdx :
            /\ cmds[i].id = ServiceIDBase + NameHash(projectName, cmds[i].svc)
            /\ cmds[i].id \in 200..1199
    /\ upResult # Nil =>
            \A i \in DOMAIN upResult.Services :
                LET res == upResult.Services[i] IN
                /\ res.ContainerID = ServiceIDBase + NameHash(projectName, res.Name)
                /\ res.ContainerID \in 200..1199

\* under project "shop" two services are running, each under its identifier
C31_Witness ==
    /\ projectName = "shop"
    /\ upResult # Nil
    /\ Len(upResult.Services) = 2
    /\ \A i \in 1..2 : upResult.Services[i].Status = "running"
    /\ \E i \in CmdIdx : cmds[i].op = "start" /\ cmds[i].ok

\* C32: within one up run no two distinct services of the stack are given
\* the same container identifier.
C32_DistinctIdentifiers ==
    upResult # Nil =>
        \A i, j \in DOMAIN upResult.Services :
            upResult.Services[i].Name # upResult.Services[j].Name =>
                upResult.Services[i].ContainerID # upResult.Services[j].ContainerID

\* C33: down resolves the dependency order before it executes the preStop
\* hooks: when down returns the error of a failed resolution, no preStop
\* hook has been executed.
C33_ResolveBeforePreStop ==
    (opc = "downReturned" /\ downErr # NoErr) =>
        \A i \in DOMAIN hooksRun : hooksRun[i] # "PreStop"

\* C34: when down has resolved the order, the names on which it attempts
\* removal are keys of the stack's services, and every key is attempted
\* exactly once.
C34_DownRemovesEachKeyOnce ==
    (opc = "downReturned" /\ downErr = NoErr) =>
        /\ \A i \in DOMAIN removed : removed[i] \in DOMAIN stack.Services
        /\ \A name \in DOMAIN stack.Services :
                Cardinality({i \in DOMAIN removed : removed[i] = name}) = 1

\* C35: the service name that a cycle error of the resolver carries lies on
\* a dependency cycle of the graph: it is reachable from itself.
C35_ErrorNamesCycleMember ==
    (resolved # NoResolved /\ resolved.err = CycleErr) =>
        /\ resolved.at \in Defined(stack)
        /\ resolved.at \in Reaches(stack, resolved.at)

\* web depends on api, api and db on each other: the error names api or db
C35_Witness ==
    /\ resolved # NoResolved
    /\ DOMAIN stack.Services = ServiceNames
    /\ stack.Services["web"].DependsOn = <<"api">>
    /\ stack.Services["api"].DependsOn = <<"db">>
    /\ stack.Services["db"].DependsOn = <<"api">>
    /\ resolved.err = CycleErr
    /\ resolved.at = "api"

\* the step-by-step resolver returns what GetServiceDependencyOrder returns
WalkAgrees ==
    walk.pc = "done" =>
        LET r == GetServiceDependencyOrder(stack, walk.iter) IN
        /\ walk.order = r.order
        /\ walk.err = r.err
        /\ walk.at = r.at

\* C36: the resolver terminates on every services mapping, be it acyclic,
\* cyclic or with dangling references, and it enters the loop over the
\* dependencies of a name at most once.
C36_ResolverTerminates ==
    /\ [](NoRepeat(walk.expanded))
    /\ <>(walk.pc = "done")

\* a resolution has returned on a graph with a dangling reference, after
\* api, reached from two services, was expanded once
C36_Witness ==
    /\ walk.pc = "done"
    /\ DOMAIN stack.Services = ServiceNames
    /\ stack.Services["web"].DependsOn = <<"api", Ghost>>
    /\ stack.Services["db"].DependsOn = <<"api">>
    /\ stack.Services["api"].DependsOn = <<>>
    /\ walk.err = NoErr
    /\ Len(walk.expanded) = 4

\* the commands by which a run of BuildTemplate creates its container
BuildRuns == {i \in CmdIdx : cmds[i].by[1] = "Create"}

\* the successful exports of a template
Exports == {i \in CmdIdx : cmds[i].op = "template" /\ cmds[i].ok}

\* C37: when up creates the container of a service with a build source, the
\* build pipeline has run exactly once for it and the container is cloned
\* from the template reference that this build's export returned; when it
\* creates the container of a service with a template, no build has run
\* and the container is made from that template.
C37_BuildOnceThenCreate ==
    [][opc = "create" =>
        LET service == stack.Services[curService] IN
        IF HasBuild(service)
        THEN /\ Cardinality(BuildRuns) = 1
             /\ Cardinality(Exports) = 1
             /\ \A i \in Exports : templateName = Itoa(cmds[i].id)
             /\ Appended # <<>>
             /\ Appended[1].op = "clone"
        ELSE /\ cmds = <<>>
             /\ templateName = service.Template
             /\ Appended # <<>>
             /\ \A i \in DOMAIN Appended : Appended[i].by[1] = "Deploy"]_vars

\* the container of a built service has been cloned and configured
C37_Witness ==
    /\ opc = "start"
    /\ HasBuild(stack.Services[curService])
    /\ Cardinality(Exports) = 1
    /\ cmds[Len(cmds) - 1].op = "clone"
    /\ cmds[Len(cmds)].op = "set"
    /\ cmds[Len(cmds)].ok

\* C38: in every result that up returns, an outcome has status "running"
\* exactly when it carries no error, at most one outcome carries an error,
\* and that outcome is the last entry of the result.
C38_RunningIffNoError ==
    (opc = "upReturned" /\ upResult # Nil) =>
        LET outcomes == upResult.Services IN
        /\ \A i \in DOMAIN outcomes :
                outcomes[i].Status = "running" <=> outcomes[i].Error = NoErr
        /\ Cardinality({i \in DOMAIN outcomes : outcomes[i].Error # NoErr}) <= 1
        /\ \A i \in DOMAIN outcomes : outcomes[i].Error # NoErr => i = Len(outcomes)

\* up has returned three outcomes: two running, the last one failed at create
C38_Witness ==
    /\ opc = "upReturned"
    /\ upResult # Nil
    /\ Len(upResult.Services) = 3
    /\ upResult.Services[1].Status = "running"
    /\ upResult.Services[2].Status = "running"
    /\ upResult.Services[3].Error = "failed to create container"
    /\ upResult.Services[3].Status = ""

\* ------------------------------------------------------------------------
\* C39: the command a Run step executes is the manifest command with the
\* build arguments substituted, and it is the same whatever the order in
\* which the build arguments are processed
\* ------------------------------------------------------------------------
\* the manifest command of the step that issued a command
CommandOf(c) ==
    IF c.by[1] = "Step" THEN lxcfile.Setup[c.by[2]].Run
    ELSE lxcfile.Cleanup[c.by[2]].Run

RunCmds == {i \in 1..Len(cmds) : "command" \in DOMAIN cmds[i]}

\* C39: every command executed for a Run step is what the substitution of
\* the build arguments gives in each order of processing them
C39_ExpansionIsOrderIndependent ==
    \A i \in RunCmds :
        \A order \in Perms(DOMAIN buildArgs) :
            cmds[i].command = expandBuildArgs(CommandOf(cmds[i]), buildArgs, order, 1)

====
